---------------------------- MODULE Spec2Model ----------------------------
(***************************************************************************)
(* Verification model of the RBAC core of moa-backend-fastapi:             *)
(*   - PermissionName value object (parse / validate / normalise)         *)
(*   - Permission / Role / User entities and the authorization decision   *)
(*   - CreatePermissionUseCase / BulkCreatePermissionsUseCase against the *)
(*     SQLAlchemy repository and the get_db session                       *)
(*   - the permission routes and their require_permission dependency      *)
(*                                                                         *)
(* A Python str is modelled as a sequence of character tokens.  Every     *)
(* token stands for one character, except "L98" which stands for a run of *)
(* BlockWidth lowercase letters (so that the 100 character limit can be   *)
(* exercised with short sequences).  "NL" is the newline character.       *)
(***************************************************************************)
EXTENDS Integers, Sequences, FiniteSets, TLC

VARIABLES
    raw,        \* PermissionName: the raw string handed to the constructor
    pn,         \* PermissionName: the outcome of the construction
    roleObjs,   \* heap of Role objects: object -> [id, permissions]
    userRoles,  \* User.roles: list of references to Role objects
    lastOp,     \* last entity operation, with the collection before it
    db,         \* rows of table permissions: set of [nome, owner]
    sess,       \* per caller: session / use case execution state
    req,        \* HTTP request in flight on a permission route
    resp,       \* HTTP response of that request
    call,       \* a call of a method or handler: what it is applied to
    ret         \* what that call returned or raised

nameVars == <<raw, pn>>
rbacVars == <<roleObjs, userRoles, lastOp>>
repoVars == <<db, sess>>
httpVars == <<req, resp>>
fnVars   == <<call, ret>>
vars     == <<raw, pn, roleObjs, userRoles, lastOp, db, sess, req, resp,
             call, ret>>

(***************************************************************************)
(* Python strings                                                          *)
(***************************************************************************)
LowerLetters == {"a", "c", "d", "p", "u", "L98"}
UpperLetters == {"C", "U"}
Digits       == {"1"}
Whitespace   == {" ", "NL"}
WordChars    == LowerLetters \cup Digits \cup {"_"}     \* [a-z0-9_]

BlockWidth == 98
MinNameLen == 3
MaxNameLen == 100
MinParts   == 2
MaxParts   == 5

\* width in characters of one token
Width(c) == IF c = "L98" THEN BlockWidth ELSE 1

RECURSIVE PyLen(_)
\* len(s)
PyLen(s) == IF s = <<>> THEN 0 ELSE Width(Head(s)) + PyLen(Tail(s))

\* one character of str.lower()
LowerChar(c) == CASE c = "C" -> "c"
                  [] c = "U" -> "u"
                  [] OTHER   -> c

\* str.lower()
PyLower(s) == [i \in 1..Len(s) |-> LowerChar(s[i])]

RECURSIVE LStrip(_)
LStrip(s) == IF s # <<>> /\ Head(s) \in Whitespace THEN LStrip(Tail(s)) ELSE s

RECURSIVE RStrip(_)
RStrip(s) == IF s # <<>> /\ s[Len(s)] \in Whitespace
             THEN RStrip(SubSeq(s, 1, Len(s) - 1)) ELSE s

\* str.strip()
PyStrip(s) == RStrip(LStrip(s))

RECURSIVE SplitFrom(_, _)
\* str.split("."): cur is the part being accumulated
SplitFrom(s, cur) ==
    IF s = <<>> THEN <<cur>>
    ELSE IF Head(s) = "." THEN <<cur>> \o SplitFrom(Tail(s), <<>>)
    ELSE SplitFrom(Tail(s), Append(cur, Head(s)))

PySplit(s) == SplitFrom(s, <<>>)

RECURSIVE PyJoin(_)
\* ".".join(parts)
PyJoin(parts) ==
    IF parts = <<>> THEN <<>>
    ELSE IF Len(parts) = 1 THEN parts[1]
    ELSE parts[1] \o <<".">> \o PyJoin(Tail(parts))

\* the text a pattern ending in "$" is matched against: re's "$" also
\* matches just before a newline that ends the string
BeforeFinalNewline(s) ==
    IF s # <<>> /\ s[Len(s)] = "NL" THEN SubSeq(s, 1, Len(s) - 1) ELSE s

\* re.match(r"^[a-z0-9_]+$", part)
MatchesWord(part) ==
    LET body == BeforeFinalNewline(part)
    IN  body # <<>> /\ \A i \in 1..Len(body) : body[i] \in WordChars

\* re.match(r"^[a-z][a-z0-9_]*$", value)
MatchesResource(value) ==
    LET body == BeforeFinalNewline(value)
    IN  /\ body # <<>>
        /\ body[1] \in LowerLetters
        /\ \A i \in 1..Len(body) : body[i] \in WordChars

(***************************************************************************)
(* PermissionName value object                                             *)
(***************************************************************************)
\* PermissionName._is_valid_permission_format
IsValidPermissionFormat(name) ==
    LET parts == PySplit(name)
    IN  IF Len(parts) < MinParts \/ Len(parts) > MaxParts THEN FALSE
        ELSE \A i \in 1..Len(parts) : MatchesWord(parts[i])

InvalidFormat == [ok |-> FALSE, error |-> "InvalidPermissionFormatException"]

\* a constructor that validates the normalized string but keeps the raw one
PermissionNameUnnormalized(value) ==
    IF value = <<>> THEN InvalidFormat
    ELSE LET normalized == PyLower(PyStrip(value))
         IN  IF PyLen(normalized) < MinNameLen THEN InvalidFormat
             ELSE IF PyLen(normalized) > MaxNameLen THEN InvalidFormat
             ELSE IF ~IsValidPermissionFormat(normalized) THEN InvalidFormat
             ELSE [ok |-> TRUE, value |-> value]

\* PermissionName.__post_init__: the constructed value, or the exception
PermissionName(value) ==
    IF value = <<>> THEN InvalidFormat
    ELSE LET normalized == PyLower(PyStrip(value))
         IN  IF PyLen(normalized) < MinNameLen THEN InvalidFormat
             ELSE IF PyLen(normalized) > MaxNameLen THEN InvalidFormat
             ELSE IF ~IsValidPermissionFormat(normalized) THEN InvalidFormat
             ELSE [ok |-> TRUE, value |-> normalized]

\* PermissionName.get_parts
GetParts(name) == PySplit(name)

\* PermissionName.get_depth
GetDepth(name) == Len(GetParts(name))

\* PermissionName.get_base_resource
GetBaseResource(name) == GetParts(name)[1]

\* PermissionResource.__init__
PermissionResource(value) ==
    IF value = <<>> THEN [ok |-> FALSE, error |-> "ValueError"]
    ELSE IF ~MatchesResource(value) THEN [ok |-> FALSE, error |-> "ValueError"]
    ELSE [ok |-> TRUE, value |-> value]

\* PermissionName.resource
Resource(name) == PermissionResource(GetBaseResource(name))

\* PermissionName.action
Action(name) == LET parts == PySplit(name) IN parts[Len(parts)]


(***************************************************************************)
(* Specification SpecName: PermissionName construction on bounded inputs   *)
(***************************************************************************)
MaxRawLen    == 4
MaxDottedLen == 11

\* characters the raw inputs are built from
RawAlphabet == {"u", "C", "1", "_", ".", " ", "NL", "-", "L98"}

\* all sequences over S of length at most n
SeqsUpTo(S, n) == UNION {[1..k -> S] : k \in 0..n}

\* raw strings handed to the constructor: every short string over the
\* alphabet, and every string of letters and dots up to 6 parts of 1 letter
RawInputs == SeqsUpTo(RawAlphabet, MaxRawLen) \cup SeqsUpTo({"a", "."}, MaxDottedLen)

NotConstructed == [ok |-> FALSE, error |-> "not constructed"]

IdleName == raw = <<>> /\ pn = NotConstructed
IdleRbac == roleObjs = <<>> /\ userRoles = <<>> /\ lastOp = <<>>
IdleRepo == db = {} /\ sess = <<>>
IdleHttp == req = <<>> /\ resp = <<>>
IdleFn   == call = <<>> /\ ret = <<>>

InitName ==
    /\ raw \in RawInputs
    /\ pn = NotConstructed
    /\ IdleRbac /\ IdleRepo /\ IdleHttp /\ IdleFn

\* PermissionName(raw)
Construct ==
    /\ pn = NotConstructed
    /\ pn' = PermissionName(raw)
    /\ UNCHANGED <<raw, rbacVars, repoVars, httpVars, fnVars>>

NextName == Construct

SpecName == InitName /\ [][NextName]_vars

Constructed == pn # NotConstructed

\* the grammar of section 4.1, stated on the raw string
GrammarValid(s) ==
    LET n     == PyLower(PyStrip(s))
        parts == PySplit(n)
    IN  /\ PyLen(n) >= 3 /\ PyLen(n) <= 100
        /\ Len(parts) >= 2 /\ Len(parts) <= 5
        /\ \A i \in 1..Len(parts) :
              /\ parts[i] # <<>>
              /\ \A j \in 1..Len(parts[i]) : parts[i][j] \in WordChars

\* C9: construction succeeds exactly for the raw strings that satisfy the
\* grammar (trimmed and lowercased: length 3..100, 2..5 dot-separated parts,
\* every part non-empty and made only of [a-z0-9_]); every other input fails
\* with InvalidPermissionFormatException.
C9_SucceedsExactlyOnGrammar ==
    Constructed =>
        /\ pn.ok <=> GrammarValid(raw)
        /\ ~pn.ok => pn = InvalidFormat

\* C9, the part the code keeps: every string of the grammar is accepted with
\* its normalised value, and the four inputs of section 8 are rejected.
C9_GrammarAccepted ==
    Constructed =>
        /\ GrammarValid(raw) => pn = [ok |-> TRUE, value |-> PyLower(PyStrip(raw))]
        /\ raw \in {<<>>, <<"a", "a">>,
                    <<"a", ".", ".", "a">>,
                    <<"a", ".", "a", ".", "a", ".", "a", ".", "a", ".", "a">>}
              => pn = InvalidFormat

\* C9 witness: a name accepted although one of its parts holds a newline
C9_NewlineAccepted ==
    /\ Constructed /\ pn.ok
    /\ \E i \in 1..Len(pn.value) : pn.value[i] = "NL"

\* all parts but the last, joined by "."
DottedPrefix(name) ==
    LET parts == PySplit(name) IN PyJoin(SubSeq(parts, 1, Len(parts) - 1))

\* C10: for every valid PermissionName, resource and action are defined,
\* action is the last part and resource is all parts but the last joined by
\* "." (so for depth 2 resource + "." + action is the value).
C10_ResourceIsDottedPrefix ==
    (Constructed /\ pn.ok) =>
        /\ Resource(pn.value).ok
        /\ Resource(pn.value).value = DottedPrefix(pn.value)
        /\ Action(pn.value) = PySplit(pn.value)[GetDepth(pn.value)]
        /\ GetDepth(pn.value) = 2 =>
              Resource(pn.value).value \o <<".">> \o Action(pn.value) = pn.value

\* C10 witness: a valid name of depth 3, whose resource is its first part only
C10_NestedResourceIsBase ==
    /\ Constructed /\ pn.ok
    /\ GetDepth(pn.value) = 3
    /\ Resource(pn.value).ok
    /\ Resource(pn.value).value = GetBaseResource(pn.value)
    /\ Resource(pn.value).value # DottedPrefix(pn.value)

\* str.upper() on the letters that have a capital among the characters used
UpperChar(c) == CASE c = "c" -> "C"
                  [] c = "u" -> "U"
                  [] OTHER   -> c

PyUpper(s) == [i \in 1..Len(s) |-> UpperChar(s[i])]

\* strings that differ from s only in letter case or in leading/trailing
\* whitespace
Variants(s) ==
    LET cased == {s, PyUpper(s), PyLower(s)}
    IN  UNION {{c, <<" ">> \o c, c \o <<" ">>, c \o <<"NL">>,
                <<" ", " ">> \o c \o <<" ">>} : c \in cased}

\* the equality and the hash the dataclass generates: those of the tuple of
\* fields (value,)
PermissionNameEq(a, b) == <<a.value>> = <<b.value>>

PermissionNameHash(a) == <<a.value>>

\* C20: every string that differs from raw only in letter case or in
\* leading/trailing whitespace constructs a PermissionName equal to the one
\* constructed from raw, with the same hash (or fails as raw does), and
\* constructing from the value of a constructed name gives that name again.
C20_CaseAndPaddingConstructEqual ==
    Constructed =>
        /\ \A v \in Variants(raw) :
              LET other == PermissionName(v) IN
              /\ other.ok = pn.ok
              /\ pn.ok => /\ PermissionNameEq(other, pn)
                          /\ PermissionNameHash(other) = PermissionNameHash(pn)
        /\ pn.ok => /\ PermissionName(pn.value) = pn
                    /\ pn.value = PyLower(pn.value)
                    /\ pn.value = PyStrip(pn.value)

\* C20 witness: "u.C " was constructed and has the value "u.c", which "U.c"
\* and "u.c" construct as well
C20_CapitalsAndSpaceConstructed ==
    /\ raw = <<"u", ".", "C", " ">>
    /\ Constructed
    /\ pn = [ok |-> TRUE, value |-> <<"u", ".", "c">>]
    /\ PermissionName(<<"U", ".", "c">>) = pn
    /\ PermissionName(<<"u", ".", "c">>) = pn


(***************************************************************************)
(* Permission / Role / User entities                                       *)
(*                                                                         *)
(* A Permission is an immutable value [id, nome, descricao].  A Role is a  *)
(* mutable object on the heap; User.roles holds references to Role         *)
(* objects.  Two Permission values may carry the same id with another      *)
(* description (update_description) or the same name under another id.     *)
(***************************************************************************)
UsersCreate == <<"u", ".", "c">>
UsersDelete == <<"u", ".", "d">>
PostsDelete == <<"p", ".", "d">>

\* Permission values the callers hold
PermUniverse ==
    { [id |-> 1, nome |-> UsersCreate, descricao |-> "x"],
      [id |-> 1, nome |-> UsersCreate, descricao |-> "y"],
      [id |-> 2, nome |-> PostsDelete, descricao |-> "x"],
      [id |-> 3, nome |-> UsersCreate, descricao |-> "x"] }

\* Role objects the callers hold, and the id each was built with
RoleObjs == {"editor", "admin", "editor_reloaded"}
RoleIdOf(o) == IF o = "admin" THEN "r2" ELSE "r1"

\* the role objects that are handed permissions; editor_reloaded is a second
\* instance of the editor role (same id) that stays without permissions
GrantedRoles == {"editor", "admin"}

\* names asked of has_permission (raw, as the caller types them)
QueryNames == {UsersCreate, UsersDelete, PostsDelete,
               <<"U", ".", "C">>, <<"u", ".", "c", " ">>, <<"u", ".", "*">>}

MaxPermsPerRole == 2

\* Permission.__eq__: identity is the id
PermissionEq(p, q) == p.id = q.id

\* permission in self.permissions
PermissionIn(p, perms) == \E i \in 1..Len(perms) : PermissionEq(perms[i], p)

RECURSIVE RemoveFirstPermission(_, _)
\* self.permissions.remove(p): drops the first entry equal to p
RemoveFirstPermission(perms, p) ==
    IF perms = <<>> THEN <<>>
    ELSE IF PermissionEq(Head(perms), p) THEN Tail(perms)
    ELSE <<Head(perms)>> \o RemoveFirstPermission(Tail(perms), p)

\* the mutated add: appends without the membership test
AddPermissionAlways(perms, p) == Append(perms, p)

\* Role.add_permission: the permission list after the call
RoleAddPermission(perms, p) ==
    IF ~PermissionIn(p, perms) THEN Append(perms, p) ELSE perms

RECURSIVE RemoveByName(_, _)
\* the mutated removal: the entry to drop is looked up by name, not by id
RemoveByName(perms, p) ==
    IF perms = <<>> THEN <<>>
    ELSE IF Head(perms).nome = p.nome THEN Tail(perms)
    ELSE <<Head(perms)>> \o RemoveByName(Tail(perms), p)

\* Role.remove_permission: the permission list after the call
RoleRemovePermission(perms, p) ==
    IF PermissionIn(p, perms) THEN RemoveFirstPermission(perms, p) ELSE perms

\* Role.clear_permissions
RoleClearPermissions(perms) == <<>>

\* a membership test that reads a final "*" as any ending
HasPermissionByPattern(perms, name) ==
    \E i \in 1..Len(perms) :
       \/ perms[i].nome = PyLower(name)
       \/ /\ name # <<>>
          /\ name[Len(name)] = "*"
          /\ Len(perms[i].nome) >= Len(name) - 1
          /\ SubSeq(perms[i].nome, 1, Len(name) - 1)
                = PyLower(SubSeq(name, 1, Len(name) - 1))

\* Role.has_permission
RoleHasPermission(perms, name) ==
    \E i \in 1..Len(perms) : perms[i].nome = PyLower(name)

\* Role.__eq__ on two role objects of the heap
RoleEq(o1, o2) == roleObjs[o1].id = roleObjs[o2].id

\* role in self.roles
RoleIn(o, roles) == \E i \in 1..Len(roles) : RoleEq(roles[i], o)

RECURSIVE RemoveFirstRole(_, _)
\* self.roles.remove(role): drops the first entry equal to role
RemoveFirstRole(roles, o) ==
    IF roles = <<>> THEN <<>>
    ELSE IF RoleEq(Head(roles), o) THEN Tail(roles)
    ELSE <<Head(roles)>> \o RemoveFirstRole(Tail(roles), o)

\* the mutated add: membership is tested on the object, not on its id
AddRoleByIdentity(roles, o) ==
    IF \A i \in 1..Len(roles) : roles[i] # o THEN Append(roles, o) ELSE roles

\* User.add_role: the role list after the call
UserAddRole(roles, o) == IF ~RoleIn(o, roles) THEN Append(roles, o) ELSE roles

\* User.remove_role: the role list after the call
UserRemoveRole(roles, o) ==
    IF RoleIn(o, roles) THEN RemoveFirstRole(roles, o) ELSE roles

RECURSIVE HasPermissionAllRoles(_, _)
\* the mutated decision: every role must grant the permission
HasPermissionAllRoles(roles, name) ==
    IF roles = <<>> THEN TRUE
    ELSE IF ~RoleHasPermission(roleObjs[Head(roles)].permissions, name) THEN FALSE
    ELSE HasPermissionAllRoles(Tail(roles), name)

RECURSIVE UserHasPermission(_, _)
\* User.has_permission: the loop over self.roles with its early return
UserHasPermission(roles, name) ==
    IF roles = <<>> THEN FALSE
    ELSE IF RoleHasPermission(roleObjs[Head(roles)].permissions, name) THEN TRUE
    ELSE UserHasPermission(Tail(roles), name)

\* ord(c): the code point Python compares characters by ("L98" is a run of
\* the letter l)
CodePoint(c) ==
    CASE c = "NL" -> 10  [] c = " " -> 32  [] c = "*" -> 42  [] c = "-" -> 45
      [] c = "."  -> 46  [] c = "1" -> 49  [] c = "C" -> 67  [] c = "U" -> 85
      [] c = "_"  -> 95  [] c = "a" -> 97  [] c = "c" -> 99  [] c = "d" -> 100
      [] c = "L98" -> 108 [] c = "p" -> 112 [] c = "u" -> 117

RECURSIVE StrLess(_, _)
\* a < b on two str: the first differing character decides, a proper prefix
\* is smaller
StrLess(a, b) ==
    IF b = <<>> THEN FALSE
    ELSE IF a = <<>> THEN TRUE
    ELSE IF Head(a) # Head(b) THEN CodePoint(Head(a)) < CodePoint(Head(b))
    ELSE StrLess(Tail(a), Tail(b))

RECURSIVE PySorted(_)
\* sorted(list(names)) of a set of str
PySorted(names) ==
    IF names = {} THEN <<>>
    ELSE LET least == CHOOSE x \in names :
                         \A y \in names : x = y \/ StrLess(x, y)
         IN  <<least>> \o PySorted(names \ {least})

RECURSIVE NamesInRoleOrder(_)
\* the mutated collection: a list filled in role order, neither deduplicated
\* nor sorted
NamesInRoleOrder(roles) ==
    IF roles = <<>> THEN <<>>
    ELSE [j \in 1..Len(roleObjs[Head(roles)].permissions) |->
             roleObjs[Head(roles)].permissions[j].nome]
           \o NamesInRoleOrder(Tail(roles))

\* a collection that reads the first attached role only
PermissionsOfFirstRole(roles) ==
    IF roles = <<>> THEN <<>>
    ELSE PySorted({ roleObjs[roles[1]].permissions[j].nome :
                      j \in 1..Len(roleObjs[roles[1]].permissions) })

\* User.get_all_permissions: the two loops fill a set with
\* permission.nome.value, the set is returned sorted
GetAllPermissions(roles) ==
    PySorted(UNION { { roleObjs[roles[i]].permissions[j].nome :
                         j \in 1..Len(roleObjs[roles[i]].permissions) } :
                     i \in 1..Len(roles) })

(***************************************************************************)
(* Specification Spec: the entities under every sequence of calls          *)
(***************************************************************************)
NoOp == [op |-> "create", role |-> "", perm |-> <<>>, present |-> FALSE,
         changed |-> FALSE]

\* Role.create for every role object, User.create
Init ==
    /\ roleObjs = [o \in RoleObjs |-> [id |-> RoleIdOf(o), permissions |-> <<>>]]
    /\ userRoles = <<>>
    /\ lastOp = NoOp
    /\ IdleName /\ IdleRepo /\ IdleHttp /\ IdleFn

\* lastOp observes a call: its arguments, whether an entry equal to the
\* argument was in the collection before it, and whether the collection
\* differs after it
AddPermission(o, p) ==
    /\ Len(roleObjs[o].permissions) < MaxPermsPerRole
    /\ roleObjs' = [roleObjs EXCEPT ![o].permissions = RoleAddPermission(@, p)]
    /\ lastOp' = [op |-> "add_permission", role |-> o, perm |-> p,
                  present |-> PermissionIn(p, roleObjs[o].permissions),
                  changed |-> roleObjs'[o].permissions # roleObjs[o].permissions]
    /\ UNCHANGED <<userRoles, nameVars, fnVars, repoVars, httpVars>>

RemovePermission(o, p) ==
    /\ roleObjs' = [roleObjs EXCEPT ![o].permissions = RoleRemovePermission(@, p)]
    /\ lastOp' = [op |-> "remove_permission", role |-> o, perm |-> p,
                  present |-> PermissionIn(p, roleObjs[o].permissions),
                  changed |-> roleObjs'[o].permissions # roleObjs[o].permissions]
    /\ UNCHANGED <<userRoles, nameVars, fnVars, repoVars, httpVars>>

ClearPermissions(o) ==
    /\ roleObjs' = [roleObjs EXCEPT ![o].permissions = RoleClearPermissions(@)]
    /\ lastOp' = [op |-> "clear_permissions", role |-> o, perm |-> <<>>,
                  present |-> roleObjs[o].permissions # <<>>,
                  changed |-> roleObjs'[o].permissions # roleObjs[o].permissions]
    /\ UNCHANGED <<userRoles, nameVars, fnVars, repoVars, httpVars>>

AddRole(o) ==
    /\ userRoles' = UserAddRole(userRoles, o)
    /\ lastOp' = [op |-> "add_role", role |-> o, perm |-> <<>>,
                  present |-> RoleIn(o, userRoles),
                  changed |-> userRoles' # userRoles]
    /\ UNCHANGED <<roleObjs, nameVars, fnVars, repoVars, httpVars>>

RemoveRole(o) ==
    /\ userRoles' = UserRemoveRole(userRoles, o)
    /\ lastOp' = [op |-> "remove_role", role |-> o, perm |-> <<>>,
                  present |-> RoleIn(o, userRoles),
                  changed |-> userRoles' # userRoles]
    /\ UNCHANGED <<roleObjs, nameVars, fnVars, repoVars, httpVars>>

Next ==
    \/ \E o \in GrantedRoles, p \in PermUniverse : AddPermission(o, p)
    \/ \E o \in GrantedRoles, p \in PermUniverse : RemovePermission(o, p)
    \/ \E o \in GrantedRoles : ClearPermissions(o)
    \/ \E o \in RoleObjs : AddRole(o)
    \/ \E o \in RoleObjs : RemoveRole(o)

Spec == Init /\ [][Next]_vars

\* the permissions of the role objects attached to the user
AttachedPermissions ==
    UNION { {roleObjs[userRoles[i]].permissions[j] :
                j \in 1..Len(roleObjs[userRoles[i]].permissions)} :
            i \in 1..Len(userRoles) }

\* C1: User.has_permission(name) is true exactly when at least one attached
\* role holds a permission with that name (OR across roles); a user without
\* roles has no permission; with users.create on role editor and editor on
\* the user, has_permission("users.create") is true and
\* has_permission("users.delete") is false.
C1_HasPermissionIsOrAcrossRoles ==
    /\ \A n \in QueryNames :
          UserHasPermission(userRoles, n)
              <=> \E p \in AttachedPermissions : p.nome = PyLower(n)
    /\ userRoles = <<>> => \A n \in QueryNames : ~UserHasPermission(userRoles, n)
    /\ ( /\ userRoles = <<"editor">>
         /\ \A i \in 1..Len(roleObjs["editor"].permissions) :
               roleObjs["editor"].permissions[i].nome = UsersCreate
         /\ roleObjs["editor"].permissions # <<>> )
       => /\ UserHasPermission(userRoles, UsersCreate)
          /\ ~UserHasPermission(userRoles, UsersDelete)

\* C1 witness: the first attached role lacks posts.delete, the second has
\* it, and the user is reported to have it
C1_SecondRoleGrants ==
    /\ Len(userRoles) = 2
    /\ ~RoleHasPermission(roleObjs[userRoles[1]].permissions, PostsDelete)
    /\ RoleHasPermission(roleObjs[userRoles[2]].permissions, PostsDelete)
    /\ UserHasPermission(userRoles, PostsDelete)

\* no two entries of a permission list share an id
UniqueIds(perms) ==
    \A i, j \in 1..Len(perms) : perms[i].id = perms[j].id => i = j

\* C3: from Role.create, after any sequence of add_permission,
\* remove_permission and clear_permissions no two entries of role.permissions
\* share an id; add_permission of a permission whose id is present (whatever
\* its description) leaves the collection unchanged.
C3_NoDuplicatePermissionIds ==
    /\ \A o \in RoleObjs : UniqueIds(roleObjs[o].permissions)
    /\ (lastOp.op = "add_permission" /\ lastOp.present) => ~lastOp.changed

\* C3 witness: a permission was added to a role that held one with the same
\* id and another description, and the role still holds that single entry
C3_SameIdAddedTwice ==
    /\ lastOp.op = "add_permission"
    /\ lastOp.present
    /\ Len(roleObjs[lastOp.role].permissions) = 1
    /\ roleObjs[lastOp.role].permissions[1].id = lastOp.perm.id
    /\ roleObjs[lastOp.role].permissions[1].descricao # lastOp.perm.descricao


(***************************************************************************)
(* Permission repository, sessions and the create / bulk-create use cases  *)
(*                                                                         *)
(* db is the table permissions: a set of rows [nome, owner, copy].  owner  *)
(* is "committed" or the caller whose open transaction inserted the row;   *)
(* copy tells apart rows of one owner that carry the same nome.  A session *)
(* reads the committed rows and its own (READ COMMITTED).  Each caller     *)
(* owns one session and runs use case executions on it; every await on the *)
(* repository is a step of its own, so executions of two callers           *)
(* interleave between the pre-check and the insert.                        *)
(***************************************************************************)
Callers == {"c1", "c2"}

\* raw names the callers send: "Users.Create", "users.create",
\* "users.delete", "u-c" (no dot) and "u\n.c" (newline inside a part)
RawNames == { <<"U", ".", "C">>, UsersCreate, UsersDelete,
              <<"u", "-", "c">>, <<"u", "NL", ".", "c">> }

MinBatchItems == 1

\* the batches the callers send: empty, one new name, the same name twice in
\* two spellings, two different names, a name the insert listener refuses
\* (alone and after a good one), and a batch holding a malformed name
Batches == { <<>>,
             << <<"U", ".", "C">> >>,
             << UsersCreate, <<"U", ".", "C">> >>,
             << UsersCreate, UsersDelete >>,
             << <<"u", "NL", ".", "c">> >>,
             << UsersDelete, <<"u", "NL", ".", "c">> >>,
             << UsersCreate, <<"u", "-", "c">> >> }

\* CreatePermissionDTO: Field(min_length=3, max_length=100) on the raw text,
\* then validate_permission_format, which returns the normalized name
CreatePermissionDTO(nome) ==
    LET normalized == PyStrip(PyLower(nome))
        parts      == PySplit(normalized)
    IN  IF /\ PyLen(nome) >= MinNameLen
           /\ PyLen(nome) <= MaxNameLen
           /\ Len(parts) >= MinParts
           /\ Len(parts) <= MaxParts
           /\ \A i \in 1..Len(parts) : MatchesWord(parts[i])
          THEN [ok |-> TRUE, nome |-> normalized]
          ELSE [ok |-> FALSE, error |-> "ValidationError"]

\* BulkCreatePermissionsDTO: a list of CreatePermissionDTO, min_length=1
BulkCreatePermissionsDTO(permissions) ==
    IF /\ Len(permissions) >= MinBatchItems
       /\ \A i \in 1..Len(permissions) : CreatePermissionDTO(permissions[i]).ok
      THEN [ok |-> TRUE,
            permissions |-> [i \in 1..Len(permissions) |->
                               CreatePermissionDTO(permissions[i]).nome]]
      ELSE [ok |-> FALSE, error |-> "ValidationError"]

\* rows a SELECT of caller c's session sees
Visible(c) == {r \in db : r.owner \in {"committed", c}}

\* PermissionRepositoryImpl.find_by_name: is a row with this nome found
FindByName(c, name) == \E r \in Visible(c) : r.nome = name

\* the INSERT waits while another open transaction holds a row of that nome
BlockedByOther(c, name) ==
    \E r \in db : r.nome = name /\ r.owner \notin {"committed", c}

\* the mutated store: the column nome carries no unique constraint
NoUniqueConstraint(c, name) == FALSE

\* PermissionModel.nome unique=True: the INSERT violates the constraint
UniqueViolation(c, name) ==
    \E r \in db : r.nome = name /\ r.owner \in {"committed", c}

\* validate_permission_name (before_insert listener):
\* re.match(r'^[a-z0-9_]+(\.[a-z0-9_]+)+$', nome.lower().strip()), max 100
ListenerAccepts(name) ==
    LET n     == BeforeFinalNewline(PyStrip(PyLower(name)))
        parts == PySplit(n)
    IN  /\ Len(parts) >= 2
        /\ \A i \in 1..Len(parts) :
              /\ parts[i] # <<>>
              /\ \A j \in 1..Len(parts[i]) : parts[i][j] \in WordChars
        /\ PyLen(PyStrip(PyLower(name))) <= MaxNameLen

\* RepositoryException(operation=..., details=...): __init__ only takes
\* message, so the raise statement itself raises TypeError
RaiseRepositoryException == "TypeError"

\* the row session.add + flush writes for caller c
NewRow(c, name) ==
    [nome |-> name, owner |-> c,
     copy |-> Cardinality({r \in db : r.nome = name /\ r.owner = c})]

\* PermissionRepositoryImpl.create: [ok, error, violation, rows]
RepoCreate(c, name) ==
    IF sess[c].failed
      THEN [ok |-> FALSE, error |-> RaiseRepositoryException,
            violation |-> FALSE, rows |-> db]
    ELSE IF ~ListenerAccepts(name)
      THEN [ok |-> FALSE, error |-> RaiseRepositoryException,
            violation |-> FALSE, rows |-> db]
    ELSE IF UniqueViolation(c, name)
      THEN [ok |-> FALSE, error |-> RaiseRepositoryException,
            violation |-> TRUE, rows |-> db]
    ELSE [ok |-> TRUE, error |-> "", violation |-> FALSE,
          rows |-> db \cup {NewRow(c, name)}]

\* Permission.get_resource: self.nome.get_resource() names a method
\* PermissionName does not have
PermissionGetResource(name) == [ok |-> FALSE, error |-> "AttributeError"]

\* CreatePermissionUseCase._to_response_dto / the PermissionResponseDTO built
\* in the bulk loop: the outcome of building the response
ToResponseDto(name) ==
    IF PermissionGetResource(name).ok THEN "created"
    ELSE PermissionGetResource(name).error

NoPrev == [nome |-> <<>>, outcome |-> "none"]

IdleSession ==
    [pc |-> "idle", kind |-> "none", items |-> <<>>, idx |-> 0,
     created |-> <<>>, skipped |-> <<>>, errors |-> <<>>,
     outcome |-> "none", wrote |-> FALSE, violation |-> FALSE,
     failed |-> FALSE, prev |-> NoPrev]

InitRepo ==
    /\ db = {}
    /\ sess = [c \in Callers |-> IdleSession]
    /\ IdleName /\ IdleRbac /\ IdleHttp /\ IdleFn

CanBegin(c) == sess[c].pc \in {"idle", "done"}

\* history: the create that ran just before on the same session and stored
\* its permission, for the next call of the session to be compared with
PrevOf(st) ==
    IF st.pc = "done" /\ st.kind = "create" /\ st.wrote
      THEN [nome |-> st.items[1], outcome |-> st.outcome]
      ELSE NoPrev

\* a call ends, raising the exception out or returning
Finish(st, out) == [st EXCEPT !.pc = "done", !.outcome = out]

\* the request body becomes a CreatePermissionDTO; then
\* CreatePermissionUseCase.execute, step 1: PermissionName(dto.nome)
BeginCreate(c, nome) ==
    /\ CanBegin(c)
    /\ LET dto == CreatePermissionDTO(nome)
           st  == [IdleSession EXCEPT !.kind = "create",
                     !.failed = sess[c].failed, !.prev = PrevOf(sess[c])]
       IN  sess' = [sess EXCEPT ![c] =
              IF ~dto.ok THEN Finish(st, dto.error)
              ELSE IF ~PermissionName(dto.nome).ok
                THEN Finish([st EXCEPT !.items = <<dto.nome>>],
                            PermissionName(dto.nome).error)
              ELSE [st EXCEPT !.items = <<dto.nome>>, !.idx = 1, !.pc = "find"]]
    /\ UNCHANGED <<db, nameVars, fnVars, rbacVars, httpVars>>

\* step 2: existing = await find_by_name(permission_name)
CreateFind(c) ==
    /\ sess[c].pc = "find" /\ sess[c].kind = "create"
    /\ LET st   == sess[c]
           name == PermissionName(st.items[1]).value
       IN  sess' = [sess EXCEPT ![c] =
              IF st.failed THEN Finish(st, RaiseRepositoryException)
              ELSE IF FindByName(c, name)
                THEN Finish(st, "PermissionAlreadyExistsException")
              ELSE [st EXCEPT !.pc = "insert"]]
    /\ UNCHANGED <<db, nameVars, fnVars, rbacVars, httpVars>>

\* steps 3-5: Permission.create, await repository.create, _to_response_dto
CreateInsert(c) ==
    /\ sess[c].pc = "insert" /\ sess[c].kind = "create"
    /\ LET st   == sess[c]
           name == PermissionName(st.items[1]).value
           res  == RepoCreate(c, name)
       IN  /\ ~BlockedByOther(c, name)
           /\ db' = res.rows
           /\ sess' = [sess EXCEPT ![c] =
                IF res.ok
                  THEN Finish([st EXCEPT !.wrote = TRUE], ToResponseDto(name))
                  ELSE Finish([st EXCEPT !.violation = res.violation,
                                         !.failed = TRUE],
                              RaiseRepositoryException)]
    /\ UNCHANGED <<nameVars, fnVars, rbacVars, httpVars>>

\* the mutated loop: an existing item is passed over without being recorded
SkipItemUnrecorded(skipped, nome) == skipped

\* skipped.append(perm_dto.nome)
SkipItem(skipped, nome) == Append(skipped, nome)

\* the exceptions the bulk loop catches per item, and the list each goes to
BulkCaught == {"DomainValidationException", "PermissionAlreadyExistsException",
               "RepositoryException"}

\* one item of the loop raised exc: recorded and the loop goes on when an
\* except clause names it, raised out of execute otherwise
BulkOnException(st, exc) ==
    IF exc \in BulkCaught
      THEN [st EXCEPT !.idx = st.idx + 1, !.pc = "find",
              !.skipped = IF exc = "PermissionAlreadyExistsException"
                            THEN SkipItem(st.skipped, st.items[st.idx])
                            ELSE st.skipped,
              !.errors = IF exc = "PermissionAlreadyExistsException"
                           THEN st.errors
                           ELSE Append(st.errors, st.items[st.idx])]
      ELSE Finish(st, exc)

\* the request body becomes a BulkCreatePermissionsDTO; then
\* BulkCreatePermissionsUseCase.execute starts its loop with empty lists
BeginBulk(c, permissions) ==
    /\ CanBegin(c)
    /\ LET dto == BulkCreatePermissionsDTO(permissions)
           st  == [IdleSession EXCEPT !.kind = "bulk",
                     !.failed = sess[c].failed]
       IN  sess' = [sess EXCEPT ![c] =
              IF ~dto.ok THEN Finish(st, dto.error)
              ELSE [st EXCEPT !.items = dto.permissions, !.idx = 1,
                              !.pc = "find"]]
    /\ UNCHANGED <<db, nameVars, fnVars, rbacVars, httpVars>>

\* loop body, first half: PermissionName(perm_dto.nome), await find_by_name,
\* if existing: skipped.append; continue
BulkFind(c) ==
    /\ sess[c].pc = "find" /\ sess[c].kind = "bulk"
    /\ sess[c].idx <= Len(sess[c].items)
    /\ LET st == sess[c]
           pn_ == PermissionName(st.items[st.idx])
       IN  sess' = [sess EXCEPT ![c] =
              IF ~pn_.ok THEN BulkOnException(st, pn_.error)
              ELSE IF st.failed
                THEN BulkOnException(st, RaiseRepositoryException)
              ELSE IF FindByName(c, pn_.value)
                THEN [st EXCEPT !.idx = st.idx + 1,
                        !.skipped = SkipItem(st.skipped, st.items[st.idx])]
              ELSE [st EXCEPT !.pc = "insert"]]
    /\ UNCHANGED <<db, nameVars, fnVars, rbacVars, httpVars>>

\* loop body, second half: Permission.create, await repository.create,
\* created.append(PermissionResponseDTO(...))
BulkInsert(c) ==
    /\ sess[c].pc = "insert" /\ sess[c].kind = "bulk"
    /\ LET st   == sess[c]
           name == PermissionName(st.items[st.idx]).value
           res  == RepoCreate(c, name)
       IN  /\ ~BlockedByOther(c, name)
           /\ db' = res.rows
           /\ sess' = [sess EXCEPT ![c] =
                IF ~res.ok
                  THEN BulkOnException(
                         [st EXCEPT !.violation = res.violation,
                                    !.failed = TRUE], res.error)
                ELSE IF ToResponseDto(name) # "created"
                  THEN BulkOnException([st EXCEPT !.wrote = TRUE],
                                       ToResponseDto(name))
                ELSE [st EXCEPT !.wrote = TRUE, !.idx = st.idx + 1,
                        !.pc = "find",
                        !.created = Append(st.created, name)]]
    /\ UNCHANGED <<nameVars, fnVars, rbacVars, httpVars>>

\* after the loop: return BulkCreatePermissionsResponseDTO(...)
BulkReturn(c) ==
    /\ sess[c].pc = "find" /\ sess[c].kind = "bulk"
    /\ sess[c].idx > Len(sess[c].items)
    /\ sess' = [sess EXCEPT ![c] = Finish(sess[c], "returned")]
    /\ UNCHANGED <<db, nameVars, fnVars, rbacVars, httpVars>>

\* the result the bulk execute returned
BulkResult(st) ==
    [created |-> st.created, skipped |-> st.skipped, errors |-> st.errors,
     total_created |-> Len(st.created), total_skipped |-> Len(st.skipped),
     total_errors |-> Len(st.errors)]

\* the owner of the session commits (await session.commit(), as get_db does
\* when nothing reached it; a caller that handles the exception of execute
\* itself may commit as well).  A transaction that failed in a flush cannot
\* commit.
SessionCommit(c) ==
    /\ sess[c].pc = "done"
    /\ ~sess[c].failed
    /\ db' = {r \in db : r.owner # c} \cup
             {[nome |-> r.nome, owner |-> "committed",
               copy |-> Cardinality({q \in db : q.nome = r.nome
                                                /\ q.owner = "committed"})] :
                r \in {q \in db : q.owner = c}}
    /\ sess' = [sess EXCEPT ![c] = IdleSession]
    /\ UNCHANGED <<nameVars, fnVars, rbacVars, httpVars>>

\* get_db, an exception reached it: await session.rollback()
SessionRollback(c) ==
    /\ sess[c].pc = "done"
    /\ sess[c].outcome # "returned"
    /\ db' = {r \in db : r.owner # c}
    /\ sess' = [sess EXCEPT ![c] = IdleSession]
    /\ UNCHANGED <<nameVars, fnVars, rbacVars, httpVars>>

NextRepo ==
    \/ \E c \in Callers, nome \in RawNames : BeginCreate(c, nome)
    \/ \E c \in Callers : CreateFind(c)
    \/ \E c \in Callers : CreateInsert(c)
    \/ \E c \in Callers, permissions \in Batches : BeginBulk(c, permissions)
    \/ \E c \in Callers : BulkFind(c)
    \/ \E c \in Callers : BulkInsert(c)
    \/ \E c \in Callers : BulkReturn(c)
    \/ \E c \in Callers : SessionCommit(c)
    \/ \E c \in Callers : SessionRollback(c)

SpecRepo == InitRepo /\ [][NextRepo]_vars

(***************************************************************************)
(* Claims on the create and bulk-create use cases                          *)
(***************************************************************************)
Finished(c, kind) ==
    sess[c].pc = "done" /\ sess[c].kind = kind /\ sess[c].items # <<>>

\* C4 (as claimed): when a create ran right after a create of the same
\* normalized name on the same session, the first one returned the created
\* permission, the second one raised PermissionAlreadyExistsException and
\* stored nothing.
C4_FirstCreatesSecondRejected ==
    \A c \in Callers :
       (Finished(c, "create") /\ sess[c].prev # NoPrev
          /\ sess[c].prev.nome = sess[c].items[1])
       => /\ sess[c].prev.outcome = "created"
          /\ sess[c].outcome = "PermissionAlreadyExistsException"
          /\ ~sess[c].wrote

\* the second half of C4 alone: the second create is rejected as already
\* existing and stores nothing
C4_SecondRejectedStoreUnchanged ==
    \A c \in Callers :
       (Finished(c, "create") /\ sess[c].prev # NoPrev
          /\ sess[c].prev.nome = sess[c].items[1])
       => /\ sess[c].outcome = "PermissionAlreadyExistsException"
          /\ ~sess[c].wrote

\* the first create stored its row and then raised AttributeError
C4_FirstRaisedAfterStoring ==
    \E c \in Callers :
       /\ Finished(c, "create")
       /\ sess[c].prev = [nome |-> UsersCreate, outcome |-> "AttributeError"]
       /\ sess[c].items[1] = UsersCreate
       /\ sess[c].outcome = "PermissionAlreadyExistsException"

\* C5 (as claimed): a create whose insert hit the unique constraint, after
\* its pre-check had found nothing, ends with PermissionAlreadyExistsException.
C5_ViolationSurfacesAsAlreadyExists ==
    \A c \in Callers :
       (Finished(c, "create") /\ sess[c].violation)
       => sess[c].outcome = "PermissionAlreadyExistsException"

\* the loser of the race ends with TypeError
C5_LoserGetsTypeError ==
    \E c \in Callers :
       /\ Finished(c, "create") /\ sess[c].violation
       /\ sess[c].outcome = "TypeError"
       /\ \E r \in db : r.nome = sess[c].items[1] /\ r.owner = "committed"

\* C6: no two rows of the table, committed or pending, carry the same
\* normalized name, and every stored name is in normalized form.
C6_NoTwoRowsShareName ==
    /\ \A r1, r2 \in db : r1.nome = r2.nome => r1 = r2
    /\ \A r \in db : r.nome = PyStrip(PyLower(r.nome))

\* both callers passed the pre-check for one name, one committed its row and
\* the other's insert was refused by the constraint
C6_SecondInsertRefused ==
    \E c \in Callers :
       /\ sess[c].violation
       /\ \E r \in db : r.nome = sess[c].items[sess[c].idx]
                        /\ r.owner = "committed"

\* C7 (as claimed): every bulk execute runs to its end and returns its
\* result, with every item in created, skipped or errors.
C7_BulkAlwaysReturns ==
    \A c \in Callers :
       Finished(c, "bulk")
       => /\ sess[c].outcome = "returned"
          /\ Len(sess[c].created) + Len(sess[c].skipped)
               + Len(sess[c].errors) = Len(sess[c].items)

\* a batch of two new names: the first is stored, the loop is left with
\* AttributeError and the second item is never looked at
C7_BatchAbortedAfterFirstInsert ==
    \E c \in Callers :
       /\ Finished(c, "bulk")
       /\ sess[c].items = <<UsersCreate, UsersDelete>>
       /\ sess[c].outcome = "AttributeError"
       /\ sess[c].idx = 1 /\ sess[c].wrote

\* C8: in a result the bulk execute returned, the three totals add up to the
\* number of items of the batch and each total is the length of its list.
C8_TotalsCoverBatch ==
    \A c \in Callers :
       (Finished(c, "bulk") /\ sess[c].outcome = "returned")
       => LET res == BulkResult(sess[c])
          IN  /\ res.total_created + res.total_skipped + res.total_errors
                   = Len(sess[c].items)
              /\ res.total_created = Len(res.created)
              /\ res.total_skipped = Len(res.skipped)
              /\ res.total_errors  = Len(res.errors)

\* a batch of two items was processed to the end and returned
C8_TwoItemBatchReturned ==
    \E c \in Callers :
       /\ Finished(c, "bulk") /\ sess[c].outcome = "returned"
       /\ Len(sess[c].items) = 2
       /\ BulkResult(sess[c]).total_skipped = 2

\* C29 (as claimed): a batch that holds the same normalized name twice, and
\* whose first occurrence was not stored yet and was inserted, returns with
\* that name created once and its second occurrence skipped, without error.
C29_RepeatedNameCreatedOnceThenSkipped ==
    \A c \in Callers :
       (/\ Finished(c, "bulk")
        /\ Len(sess[c].items) = 2
        /\ sess[c].items[1] = sess[c].items[2]
        /\ sess[c].wrote)
       => /\ sess[c].outcome = "returned"
          /\ sess[c].created = <<sess[c].items[1]>>
          /\ sess[c].skipped = <<sess[c].items[2]>>
          /\ sess[c].errors = <<>>

\* the batch "users.create", "Users.Create": the first occurrence is stored,
\* building its response raises AttributeError and the second occurrence is
\* never reached
C29_RepeatedNameNeverReached ==
    \E c \in Callers :
       /\ Finished(c, "bulk")
       /\ sess[c].items = <<UsersCreate, UsersCreate>>
       /\ sess[c].wrote
       /\ sess[c].outcome = "AttributeError"
       /\ sess[c].idx = 1
       /\ sess[c].skipped = <<>>

(***************************************************************************)
(* The permission routes and their require_permission dependency           *)
(*                                                                         *)
(* req is the request being served: the endpoint and the permission names  *)
(* the roles of the authenticated caller grant.  resp is its response: the *)
(* HTTP status and whether the use case was executed.  What the use case   *)
(* does with its input is an input here (result).                          *)
(***************************************************************************)
Endpoints == {"create", "list", "get", "update", "delete", "bulk",
              "assign", "revoke"}

\* the permission each route names in Depends(require_permission(...))
Required(endpoint) ==
    CASE endpoint = "create" -> "permissions.create"
      [] endpoint = "list"   -> "permissions.read"
      [] endpoint = "get"    -> "permissions.read"
      [] endpoint = "update" -> "permissions.update"
      [] endpoint = "delete" -> "permissions.delete"
      [] endpoint = "bulk"   -> "permissions.create"
      [] endpoint = "assign" -> "permissions.assign"
      [] endpoint = "revoke" -> "permissions.revoke"

PermissionNames == {Required(e) : e \in Endpoints}

\* how an execute ends: it returns, or raises one of the exceptions the
\* routes tell apart, or any other exception
UseCaseResults == {"returned", "PermissionAlreadyExistsException",
                   "DomainValidationException", "PermissionNotFoundException",
                   "RoleNotFoundException", "Exception"}

\* require_permission(permission): the dependency ignores the permission and
\* the caller, raises nothing and hands None to the route as current_user
require_permission(permission, granted) ==
    [denied |-> FALSE, current_user |-> "None"]

NoResponse == <<>>

InitHttp ==
    /\ req = <<>>
    /\ resp = NoResponse
    /\ IdleName /\ IdleRbac /\ IdleRepo /\ IdleFn

\* a request of an authenticated caller arrives
ReceiveRequest(endpoint, granted) ==
    /\ req = <<>> \/ resp # NoResponse
    /\ req' = [endpoint |-> endpoint, granted |-> granted]
    /\ resp' = NoResponse
    /\ UNCHANGED <<nameVars, fnVars, rbacVars, repoVars>>

Serving(endpoint) ==
    /\ req # <<>> /\ resp = NoResponse
    /\ req.endpoint = endpoint

\* the response of a route whose dependency let the request through, whose
\* use case ended with result, which answers ok on a return and maps the
\* exceptions in notFound to 404 and those in badRequest to 400
Respond(ok, notFound, badRequest, result) ==
    [status   |-> IF result = "returned" THEN ok
                  ELSE IF result \in notFound THEN 404
                  ELSE IF result \in badRequest THEN 400
                  ELSE 500,
     executed |-> TRUE]

Denied == [status |-> 403, executed |-> FALSE]

\* the route body raised before it reached the use case: except Exception
Crashed == [status |-> 500, executed |-> FALSE]

\* POST /permissions: the body first logs current_user.id
create_permission(result) ==
    /\ Serving("create")
    /\ LET dep == require_permission("permissions.create", req.granted)
       IN  resp' = IF dep.denied THEN Denied
                   ELSE IF dep.current_user = "None" THEN Crashed
                   ELSE Respond(201, {},
                                {"PermissionAlreadyExistsException",
                                 "DomainValidationException"}, result)
    /\ UNCHANGED <<req, nameVars, fnVars, rbacVars, repoVars>>

\* GET /permissions
list_permissions(result) ==
    /\ Serving("list")
    /\ LET dep == require_permission("permissions.read", req.granted)
       IN  resp' = IF dep.denied THEN Denied
                   ELSE Respond(200, {}, {}, result)
    /\ UNCHANGED <<req, nameVars, fnVars, rbacVars, repoVars>>

\* GET /permissions/{permission_id}
get_permission(result) ==
    /\ Serving("get")
    /\ LET dep == require_permission("permissions.read", req.granted)
       IN  resp' = IF dep.denied THEN Denied
                   ELSE Respond(200, {"PermissionNotFoundException"}, {}, result)
    /\ UNCHANGED <<req, nameVars, fnVars, rbacVars, repoVars>>

\* PUT /permissions/{permission_id}
update_permission(result) ==
    /\ Serving("update")
    /\ LET dep == require_permission("permissions.update", req.granted)
       IN  resp' = IF dep.denied THEN Denied
                   ELSE Respond(200, {"PermissionNotFoundException"}, {}, result)
    /\ UNCHANGED <<req, nameVars, fnVars, rbacVars, repoVars>>

\* DELETE /permissions/{permission_id}
delete_permission(result) ==
    /\ Serving("delete")
    /\ LET dep == require_permission("permissions.delete", req.granted)
       IN  resp' = IF dep.denied THEN Denied
                   ELSE Respond(200, {"PermissionNotFoundException"}, {}, result)
    /\ UNCHANGED <<req, nameVars, fnVars, rbacVars, repoVars>>

\* POST /permissions/bulk
bulk_create_permissions(result) ==
    /\ Serving("bulk")
    /\ LET dep == require_permission("permissions.create", req.granted)
       IN  resp' = IF dep.denied THEN Denied
                   ELSE Respond(201, {}, {}, result)
    /\ UNCHANGED <<req, nameVars, fnVars, rbacVars, repoVars>>

\* POST /permissions/assign-to-role
assign_permission_to_role(result) ==
    /\ Serving("assign")
    /\ LET dep == require_permission("permissions.assign", req.granted)
       IN  resp' = IF dep.denied THEN Denied
                   ELSE Respond(200, {"PermissionNotFoundException",
                                      "RoleNotFoundException"}, {}, result)
    /\ UNCHANGED <<req, nameVars, fnVars, rbacVars, repoVars>>

\* POST /permissions/revoke-from-role
revoke_permission_from_role(result) ==
    /\ Serving("revoke")
    /\ LET dep == require_permission("permissions.revoke", req.granted)
       IN  resp' = IF dep.denied THEN Denied
                   ELSE Respond(200, {"PermissionNotFoundException",
                                      "RoleNotFoundException"}, {}, result)
    /\ UNCHANGED <<req, nameVars, fnVars, rbacVars, repoVars>>

NextHttp ==
    \/ \E e \in Endpoints, granted \in SUBSET PermissionNames :
          ReceiveRequest(e, granted)
    \/ \E result \in UseCaseResults : create_permission(result)
    \/ \E result \in UseCaseResults : list_permissions(result)
    \/ \E result \in UseCaseResults : get_permission(result)
    \/ \E result \in UseCaseResults : update_permission(result)
    \/ \E result \in UseCaseResults : delete_permission(result)
    \/ \E result \in UseCaseResults : bulk_create_permissions(result)
    \/ \E result \in UseCaseResults : assign_permission_to_role(result)
    \/ \E result \in UseCaseResults : revoke_permission_from_role(result)

SpecHttp == InitHttp /\ [][NextHttp]_vars

\* C2 (as claimed): a request whose caller's roles do not grant the
\* permission its endpoint requires is answered 403 and its use case is not
\* executed.
C2_LackingPermissionIsDenied ==
    (req # <<>> /\ resp # NoResponse /\ Required(req.endpoint) \notin req.granted)
    => resp = Denied

\* a caller with no permission at all deletes a permission
C2_DeleteExecutedWithoutPermission ==
    /\ req = [endpoint |-> "delete", granted |-> {}]
    /\ resp = [status |-> 200, executed |-> TRUE]

(***************************************************************************)
(* Permission.matches                                                      *)
(*                                                                         *)
(* call is [perm, pattern]: the permission the method is called on and the *)
(* pattern handed to it; ret is what the call returned or raised.          *)
(***************************************************************************)
PostsCreate == <<"p", ".", "c">>

\* the permissions matches is called on: users.create, users.delete,
\* posts.create
MatchPerms ==
    { [id |-> 1, nome |-> UsersCreate, descricao |-> "x"],
      [id |-> 2, nome |-> UsersDelete, descricao |-> "x"],
      [id |-> 3, nome |-> PostsCreate, descricao |-> "x"] }

MaxPatternLen == 3

PatternAlphabet == {"u", "p", "c", "U", ".", "*"}

\* the patterns handed to matches: every short string over the alphabet,
\* "users.delete" and the longer name "users.create.a"
Patterns ==
    SeqsUpTo(PatternAlphabet, MaxPatternLen)
      \cup {UsersDelete, <<"u", ".", "c", ".", "a">>}

\* "*" in pattern
HasStar(pattern) == \E i \in 1..Len(pattern) : pattern[i] = "*"

\* s.split(".", 1): cut at the first dot only
SplitOnce(s) ==
    IF \E i \in 1..Len(s) : s[i] = "."
      THEN LET i == CHOOSE k \in 1..Len(s) :
                      s[k] = "." /\ \A j \in 1..(k - 1) : s[j] # "."
           IN  <<SubSeq(s, 1, i - 1), SubSeq(s, i + 1, Len(s))>>
      ELSE <<s>>

\* self.nome.get_resource() / self.nome.get_action(): PermissionName defines
\* neither method, the attribute lookup raises
NameGetResource(name) == [ok |-> FALSE, error |-> "AttributeError"]
NameGetAction(name)   == [ok |-> FALSE, error |-> "AttributeError"]

\* the mutated comparison: the name only has to start with the pattern
PrefixMatch(value, pattern) ==
    /\ Len(pattern) <= Len(value)
    /\ SubSeq(value, 1, Len(pattern)) = PyLower(pattern)

\* self.nome.value == pattern.lower()
ExactMatch(value, pattern) == value = PyLower(pattern)

\* Permission.matches(pattern): [ok, value] when it returns, [ok, error]
\* when it raises
PermissionMatches(perm, pattern) ==
    IF ~HasStar(pattern)
      THEN [ok |-> TRUE, value |-> ExactMatch(perm.nome, pattern)]
    ELSE LET halves == SplitOnce(PyLower(pattern))
         IN  IF Len(halves) # 2
               THEN [ok |-> FALSE, error |-> "ValueError"]
             ELSE IF halves[1] # <<"*">> /\ ~NameGetResource(perm.nome).ok
               THEN [ok |-> FALSE, error |-> NameGetResource(perm.nome).error]
             ELSE IF halves[2] # <<"*">> /\ ~NameGetAction(perm.nome).ok
               THEN [ok |-> FALSE, error |-> NameGetAction(perm.nome).error]
             ELSE [ok |-> TRUE,
                   value |->
                     /\ (halves[1] = <<"*">>
                           \/ NameGetResource(perm.nome).value = halves[1])
                     /\ (halves[2] = <<"*">>
                           \/ NameGetAction(perm.nome).value = halves[2])]

NotCalled == <<>>

InitMatch ==
    /\ call \in [perm : MatchPerms, pattern : Patterns]
    /\ ret = NotCalled
    /\ IdleName /\ IdleRbac /\ IdleRepo /\ IdleHttp

\* permission.matches(pattern)
Matches ==
    /\ ret = NotCalled
    /\ ret' = PermissionMatches(call.perm, call.pattern)
    /\ UNCHANGED <<call, nameVars, rbacVars, repoVars, httpVars>>

NextMatch == Matches

SpecMatch == InitMatch /\ [][NextMatch]_vars

\* the two halves R and A of a wildcard pattern 'R.A'
IsWildcardPair(pattern) ==
    HasStar(pattern) /\ Len(PySplit(PyLower(pattern))) = 2

\* C11 (as claimed): called with a wildcard pattern 'R.A', matches returns
\* a boolean, never raises, and the boolean is: (R is '*' or R is the
\* permission's resource) and (A is '*' or A is the permission's action).
C11_WildcardMatchesByParts ==
    (ret # NotCalled /\ IsWildcardPair(call.pattern))
    => LET halves == PySplit(PyLower(call.pattern))
           parts  == PySplit(call.perm.nome)
       IN  ret = [ok |-> TRUE,
                  value |-> /\ (halves[1] = <<"*">> \/ halves[1] = parts[1])
                            /\ (halves[2] = <<"*">> \/ halves[2] = parts[2])]

\* users.create asked to match "users.*": the call raises AttributeError
C11_UsersStarRaises ==
    /\ call = [perm |-> [id |-> 1, nome |-> UsersCreate, descricao |-> "x"],
               pattern |-> <<"u", ".", "*">>]
    /\ ret = [ok |-> FALSE, error |-> "AttributeError"]

\* C12: called with a pattern without '*', matches returns true exactly
\* when the pattern has the length of the name and agrees with it character
\* by character up to letter case; a pattern shorter or longer than the name
\* does not match.
C12_PlainPatternIsWholeName ==
    (ret # NotCalled /\ ~HasStar(call.pattern))
    => /\ ret.ok
       /\ ret.value <=>
            /\ Len(call.pattern) = Len(call.perm.nome)
            /\ \A i \in 1..Len(call.pattern) :
                  LowerChar(call.pattern[i]) = call.perm.nome[i]

\* "users" asked of users.create does not match, "U.c" does
C12_PrefixRejected ==
    /\ call.perm.nome = UsersCreate
    /\ call.pattern = <<"u">>
    /\ ret = [ok |-> TRUE, value |-> FALSE]

(***************************************************************************)
(* Claims on the entity collections (specification Spec)                   *)
(***************************************************************************)
\* C13: get_all_permissions returns every name some attached role grants,
\* each name once, in ascending lexicographic order.
C13_AllPermissionsSortedUnion ==
    LET names == GetAllPermissions(userRoles)
    IN  /\ {names[i] : i \in 1..Len(names)}
             = {q.nome : q \in AttachedPermissions}
        /\ \A i, j \in 1..Len(names) : i < j => StrLess(names[i], names[j])

\* users.create is granted through both attached roles, posts.delete through
\* one: the result lists posts.delete, then users.create once
C13_NameOfTwoRolesOnce ==
    /\ Len(userRoles) = 2
    /\ \A i \in 1..2 : RoleHasPermission(roleObjs[userRoles[i]].permissions,
                                          UsersCreate)
    /\ GetAllPermissions(userRoles) = <<PostsDelete, UsersCreate>>

\* C14: remove_permission with a permission whose id the role does not
\* hold, and remove_role with a role whose id is not attached, leave the
\* collection as it was (the call returns, the guarded list.remove is not
\* reached).
C14_RemoveAbsentIsNoOp ==
    (lastOp.op \in {"remove_permission", "remove_role"} /\ ~lastOp.present)
    => /\ ~lastOp.changed
       /\ lastOp.op = "remove_permission"
            => ~PermissionIn(lastOp.perm, roleObjs[lastOp.role].permissions)
       /\ lastOp.op = "remove_role" => ~RoleIn(lastOp.role, userRoles)

\* a permission with another id but the name of a held one was removed from
\* a role: the held one stays
C14_AbsentPermissionRemoved ==
    /\ lastOp.op = "remove_permission" /\ ~lastOp.present
    /\ \E i \in 1..Len(roleObjs[lastOp.role].permissions) :
          roleObjs[lastOp.role].permissions[i].nome = lastOp.perm.nome

\* C15: no two entries of user.roles share an id; add_role of a role whose
\* id is attached changes nothing; after remove_role(r) no attached role has
\* r's id.
C15_RolesUniqueById ==
    /\ \A i, j \in 1..Len(userRoles) :
          i < j => roleObjs[userRoles[i]].id # roleObjs[userRoles[j]].id
    /\ (lastOp.op = "add_role" /\ lastOp.present) => ~lastOp.changed
    /\ lastOp.op = "add_role" => RoleIn(lastOp.role, userRoles)
    /\ lastOp.op = "remove_role" => ~RoleIn(lastOp.role, userRoles)

\* the second instance of the editor role was added while the first one was
\* attached: the list still holds the first one only
C15_SameIdAddedAgain ==
    /\ lastOp.op = "add_role" /\ lastOp.role = "editor_reloaded"
    /\ lastOp.present
    /\ userRoles = <<"editor">>

(***************************************************************************)
(* PermissionRepositoryImpl.delete and the role_permissions links          *)
(*                                                                         *)
(* Here db is the three tables the deletion touches, as one session sees   *)
(* them: [permissions, roles, links], links being the rows                 *)
(* <<role_id, permission_id>> of role_permissions.  sess is the last call  *)
(* of delete: its argument, outcome and the tables before it.              *)
(***************************************************************************)
PermissionIds == {"p1", "p2"}
RoleIds       == {"r1", "r2"}

\* the stores the deletion starts from: any rows, every link between two
\* existing rows (both columns of role_permissions are foreign keys)
Stores ==
    UNION { UNION { { [permissions |-> ps, roles |-> rs, links |-> ls] :
                        ls \in SUBSET (rs \X ps) } :
                    rs \in SUBSET RoleIds } :
            ps \in SUBSET PermissionIds }

\* PermissionModel.roles of the row: the roles linked to it (lazy="selectin")
RolesOf(store, id) == {r \in store.roles : <<r, id>> \in store.links}

\* the mutated unit of work: the rows of the secondary table are left alone
LinksKept(store, id) == store.links

\* the rows of role_permissions after the flush of session.delete(model):
\* the rows of the deleted permission go (secondary of the relationship),
\* and so do the rows of the roles the delete cascade removes with it
LinksAfterDelete(store, id) ==
    {l \in store.links : l[2] # id /\ l[1] \notin RolesOf(store, id)}

\* session.delete(model); flush, for the row of that id: cascade
\* "all, delete" on PermissionModel.roles deletes the linked roles as well
FlushDelete(store, id) ==
    [permissions |-> store.permissions \ {id},
     roles       |-> store.roles \ RolesOf(store, id),
     links       |-> LinksAfterDelete(store, id)]

NoDelete == [id |-> "", outcome |-> "none", before |-> <<>>]

InitDelete ==
    /\ db \in Stores
    /\ sess = NoDelete
    /\ IdleName /\ IdleRbac /\ IdleHttp /\ IdleFn

\* PermissionRepositoryImpl.delete(permission_id).  refused: the database
\* rejects the flush (the deleted roles are referenced from tables whose
\* definition is not part of these sources)
Delete(id, refused) ==
    /\ sess.outcome # "TypeError"
    /\ IF id \notin db.permissions
         THEN /\ sess' = [id |-> id, outcome |-> "PermissionNotFoundException",
                          before |-> db]
              /\ db' = db
       ELSE IF refused /\ RolesOf(db, id) # {}
         THEN /\ sess' = [id |-> id, outcome |-> RaiseRepositoryException,
                          before |-> db]
              /\ db' = db
       ELSE /\ sess' = [id |-> id, outcome |-> "returned", before |-> db]
            /\ db' = FlushDelete(db, id)
    /\ UNCHANGED <<nameVars, fnVars, rbacVars, httpVars>>

NextDelete == \E id \in PermissionIds, refused \in BOOLEAN : Delete(id, refused)

SpecDelete == InitDelete /\ [][NextDelete]_vars

\* C16: after delete(id) returned, the permission row is gone and no row of
\* role_permissions references id: no role is linked to it any more.
C16_NoLinkToDeletedPermission ==
    sess.outcome = "returned"
    => /\ sess.id \notin db.permissions
       /\ \A l \in db.links : l[2] # sess.id
       /\ \A r \in db.roles : <<r, sess.id>> \notin db.links

\* a permission two roles were linked to has been deleted
C16_LinkedPermissionDeleted ==
    /\ sess.outcome = "returned"
    /\ sess.before # <<>>
    /\ RolesOf(sess.before, sess.id) = RoleIds
    /\ sess.id \notin db.permissions

\* the roles that were linked to the deleted permission are deleted with it
C16_LinkedRolesDeleted ==
    sess.outcome = "returned"
    => db.roles = sess.before.roles \ RolesOf(sess.before, sess.id)

\* C28 (as claimed): after delete(id) returned, the stored roles are the ones
\* stored before, and every link of a role to another permission is kept.
C28_DeleteKeepsRoles ==
    sess.outcome = "returned"
    => /\ db.roles = sess.before.roles
       /\ \A l \in sess.before.links : l[2] # sess.id => l \in db.links

\* role r1 was linked to p1 and p2; delete(p1) returned, r1 is no longer
\* stored and neither is its link to p2
C28_RoleDeletedWithPermission ==
    /\ sess.outcome = "returned"
    /\ sess.id = "p1"
    /\ sess.before # <<>>
    /\ {<<"r1", "p1">>, <<"r1", "p2">>} \subseteq sess.before.links
    /\ "r1" \notin db.roles
    /\ "p2" \in db.permissions
    /\ <<"r1", "p2">> \notin db.links

(***************************************************************************)
(* GET /permissions/user/{user_id}/check/{permission_name}                 *)
(*                                                                         *)
(* req is [caller, granted, target]: the authenticated user get_current_user*)
(* handed to the route, the permission names the caller's roles hold, and  *)
(* the user_id of the path.  resp is [status, executed, raised]: raised is *)
(* the exception the route body raised before its except clause, if any.   *)
(***************************************************************************)
UserIds == {"alice", "bob"}

\* user_id values of the path: the stored users and one that is not stored
TargetIds == UserIds \cup {"nobody"}

\* CheckUserPermissionUseCase.execute(user_id, permission_name): the answer,
\* "UserNotFoundException" for a user that is not stored, or another failure
CheckResults(target) ==
    IF target \in UserIds THEN {"true", "false", "Exception"}
    ELSE {"UserNotFoundException", "Exception"}

InitCheck ==
    /\ req = <<>>
    /\ resp = NoResponse
    /\ IdleName /\ IdleRbac /\ IdleRepo /\ IdleFn

ReceiveCheck(caller, granted, target) ==
    /\ req = <<>> \/ resp # NoResponse
    /\ req' = [caller |-> caller, granted |-> granted, target |-> target]
    /\ resp' = NoResponse
    /\ UNCHANGED <<nameVars, fnVars, rbacVars, repoVars>>

\* the caller asks about another user without holding permissions.read
CheckDenied(r) ==
    r.target # r.caller /\ "permissions.read" \notin r.granted

\* the route body up to its except clause: what it raises or returns
CheckBody(r, result) ==
    IF CheckDenied(r)
      THEN [raised |-> "HTTPException(403)", executed |-> FALSE]
    ELSE IF result \in {"true", "false"}
      THEN [raised |-> "", executed |-> TRUE]
    ELSE [raised |-> result, executed |-> TRUE]

\* check_user_permission: `except Exception` turns whatever the body raised,
\* the 403 HTTPException included, into HTTPException(500)
check_user_permission(result) ==
    /\ req # <<>> /\ resp = NoResponse
    /\ result \in CheckResults(req.target)
    /\ LET body == CheckBody(req, result)
       IN  resp' = [status   |-> IF body.raised = "" THEN 200 ELSE 500,
                    executed |-> body.executed,
                    raised   |-> body.raised]
    /\ UNCHANGED <<req, nameVars, fnVars, rbacVars, repoVars>>

NextCheck ==
    \/ \E caller \in UserIds, granted \in SUBSET PermissionNames,
          target \in TargetIds : ReceiveCheck(caller, granted, target)
    \/ \E result \in UNION {CheckResults(t) : t \in TargetIds} :
          check_user_permission(result)

SpecCheck == InitCheck /\ [][NextCheck]_vars

\* C17 (as claimed): a caller denied the check of another user is answered
\* 403, a check of a user that is not stored is answered 404, and neither
\* is answered 500.
C17_NotFoundAndDeniedDistinct ==
    resp # NoResponse
    => /\ CheckDenied(req) => resp.status = 403
       /\ resp.raised = "UserNotFoundException" => resp.status = 404

\* bob, holding nothing, checks alice: the 403 raised in the body leaves the
\* route as a 500
C17_DenialAnswered500 ==
    /\ req = [caller |-> "bob", granted |-> {}, target |-> "alice"]
    /\ resp = [status |-> 500, executed |-> FALSE,
               raised |-> "HTTPException(403)"]

(***************************************************************************)
(* The exception handlers                                                  *)
(*                                                                         *)
(* call is [handler, exc, now]: the handler, the exception [cls, detail]   *)
(* it is handed (detail is the text its constructor was given) and the     *)
(* clock; ret is the JSON response [status, body].                         *)
(***************************************************************************)
\* the exception classes of auth_exceptions.py that the handlers name or
\* that inherit from one they name, each with its base class
ExceptionBase ==
    [ AuthException                    |-> "Exception",
      DomainValidationException        |-> "AuthException",
      ValueObjectValidationException   |-> "DomainValidationException",
      InvalidEmailException            |-> "ValueObjectValidationException",
      UserException                    |-> "AuthException",
      UserAlreadyExistsException       |-> "UserException",
      UserNotFoundException            |-> "UserException",
      AuthenticationException          |-> "AuthException",
      InvalidCredentialsException      |-> "AuthenticationException",
      AuthorizationException           |-> "AuthException",
      UnauthorizedException            |-> "AuthorizationException",
      InsufficientPermissionsException |-> "AuthorizationException",
      PermissionException              |-> "AuthException",
      PermissionAlreadyExistsException |-> "PermissionException",
      PermissionNotFoundException      |-> "PermissionException",
      InvalidPermissionFormatException |-> "PermissionException",
      RepositoryException              |-> "AuthException",
      DatabaseConnectionException      |-> "RepositoryException",
      DatabaseOperationException       |-> "RepositoryException",
      KeyError                         |-> "Exception" ]

ExceptionClasses == DOMAIN ExceptionBase

RECURSIVE IsInstance(_, _)
\* isinstance(exc, base) for an exception of class cls
IsInstance(cls, base) ==
    IF cls = base THEN TRUE
    ELSE IF cls \in ExceptionClasses THEN IsInstance(ExceptionBase[cls], base)
    ELSE FALSE

\* texts the failing code put into the exception
Details == {"", "relation permissions", "host db-1 refused"}

Clock == {"t1", "t2"}

\* str(exc): the message the constructor built.  The bases take the message
\* itself, DatabaseConnectionException and InvalidCredentialsException a fixed
\* text, the others a template around their argument
StrOf(exc) ==
    IF exc.cls = "DatabaseConnectionException"
      THEN <<"Erro ao conectar com o banco de dados">>
    ELSE IF exc.cls = "InvalidCredentialsException"
      THEN <<"Email ou senha incorretos">>
    ELSE IF exc.cls \in {"AuthException", "DomainValidationException",
                         "UserException", "AuthenticationException",
                         "AuthorizationException", "PermissionException",
                         "RepositoryException", "KeyError"}
      THEN <<exc.detail>>
    ELSE <<exc.cls, exc.detail>>

\* _base_error_response
BaseErrorResponse(status, message, now) ==
    [status |-> status,
     body   |-> [success |-> FALSE, message |-> message, errors |-> <<>>,
                 timestamp |-> now]]

\* domain_exception_handler: the isinstance chain
domain_exception_handler(exc, now) ==
    IF IsInstance(exc.cls, "PermissionNotFoundException")
      THEN BaseErrorResponse(404, StrOf(exc), now)
    ELSE IF IsInstance(exc.cls, "PermissionAlreadyExistsException")
      THEN BaseErrorResponse(409, StrOf(exc), now)
    ELSE IF IsInstance(exc.cls, "DomainValidationException")
      THEN BaseErrorResponse(400, StrOf(exc), now)
    ELSE IF IsInstance(exc.cls, "RepositoryException")
      THEN BaseErrorResponse(500,
             <<"Erro ao acessar dados. Tente novamente mais tarde.">>, now)
    ELSE BaseErrorResponse(500, <<"Erro interno do servidor">>, now)

\* status_map of auth_exception_handler: keyed by the exact class
StatusMap ==
    [ UserAlreadyExistsException       |-> 400,
      InvalidCredentialsException      |-> 401,
      UserNotFoundException            |-> 404,
      UnauthorizedException            |-> 403,
      InsufficientPermissionsException |-> 403,
      DomainValidationException        |-> 400,
      RepositoryException              |-> 500 ]

\* auth_exception_handler: status_map.get(type(exc), 400), body with the
\* class name and str(exc)
auth_exception_handler(exc, now) ==
    [status |-> IF exc.cls \in DOMAIN StatusMap THEN StatusMap[exc.cls]
                ELSE 400,
     body   |-> [error |-> exc.cls, message |-> StrOf(exc)]]

Handlers == {"domain_exception_handler", "auth_exception_handler"}

\* the exceptions a handler can be handed: auth_exception_handler is
\* registered for AuthException
Handles(handler, cls) ==
    handler = "auth_exception_handler" => IsInstance(cls, "AuthException")

InitHandler ==
    /\ call \in {c \in [handler : Handlers,
                        exc : [cls : ExceptionClasses, detail : Details],
                        now : Clock] : Handles(c.handler, c.exc.cls)}
    /\ ret = NotCalled
    /\ IdleName /\ IdleRbac /\ IdleRepo /\ IdleHttp

\* the response of the handler for an exception at a time
Handle(handler, exc, now) ==
    IF handler = "domain_exception_handler"
      THEN domain_exception_handler(exc, now)
      ELSE auth_exception_handler(exc, now)

HandleException ==
    /\ ret = NotCalled
    /\ ret' = Handle(call.handler, call.exc, call.now)
    /\ UNCHANGED <<call, nameVars, rbacVars, repoVars, httpVars>>

NextHandler == HandleException

SpecHandler == InitHandler /\ [][NextHandler]_vars

\* C18 (as claimed): a RepositoryException, or an instance of one of its
\* subclasses, is answered 500, and the response is the one the handler gives
\* at that time for the same exception with any other detail text.
C18_RepositoryFailureIsGeneric500 ==
    (ret # NotCalled /\ IsInstance(call.exc.cls, "RepositoryException"))
    => /\ ret.status = 500
       /\ \A d \in Details :
             Handle(call.handler, [cls |-> call.exc.cls, detail |-> d],
                    call.now) = ret

\* the same property for domain_exception_handler only
C18_DomainHandlerIsGeneric ==
    (ret # NotCalled /\ call.handler = "domain_exception_handler"
       /\ IsInstance(call.exc.cls, "RepositoryException"))
    => /\ ret.status = 500
       /\ \A d \in Details :
             Handle(call.handler, [cls |-> call.exc.cls, detail |-> d],
                    call.now) = ret

\* auth_exception_handler answers a DatabaseOperationException with 400 and
\* its text
C18_OperationFailureExposed ==
    /\ call.handler = "auth_exception_handler"
    /\ call.exc = [cls |-> "DatabaseOperationException",
                   detail |-> "relation permissions"]
    /\ ret # NotCalled
    /\ ret.status = 400
    /\ ret.body.message = <<"DatabaseOperationException", "relation permissions">>

(***************************************************************************)
(* RegisterUseCase                                                         *)
(*                                                                         *)
(* Here db is the set of stored users [email, nome_usuario] and sess maps  *)
(* each caller to its execute call [pc, dto, email, username, outcome,     *)
(* clash].  The awaits of execute are the points where another call runs.  *)
(* The user repository is not part of these sources: it is modelled as the *)
(* specification describes it, exact lookups and a storage-level unique    *)
(* constraint on email and on username.                                    *)
(***************************************************************************)
AtXIo == "@x.io"

\* Email._is_valid_email on the strings used here: a local part of allowed
\* characters, then the domain; $ also matches before a final newline
IsValidEmail(s) ==
    LET t == BeforeFinalNewline(s) IN
    /\ Len(t) >= 2
    /\ t[Len(t)] = AtXIo
    /\ \A i \in 1..(Len(t) - 1) :
          t[i] \in LowerLetters \cup UpperLetters \cup Digits \cup {".", "_", "-"}

\* Email(value): ValueError or the value lowercased and stripped
Email(value) ==
    IF value = <<>> \/ ~IsValidEmail(value)
      THEN [ok |-> FALSE, error |-> "ValueError"]
      ELSE [ok |-> TRUE, value |-> PyStrip(PyLower(value))]

MinUsernameLen == 3
MaxUsernameLen == 50

\* Username._is_valid_username: ^[a-zA-Z0-9_-]+$
IsValidUsername(s) ==
    LET t == BeforeFinalNewline(s) IN
    /\ Len(t) >= 1
    /\ \A i \in 1..Len(t) :
          t[i] \in LowerLetters \cup UpperLetters \cup Digits \cup {"_", "-"}

\* Username(value): the length is checked before the value is stripped
Username(value) ==
    IF \/ value = <<>>
       \/ Len(value) < MinUsernameLen
       \/ Len(value) > MaxUsernameLen
       \/ ~IsValidUsername(value)
      THEN [ok |-> FALSE, error |-> "ValueError"]
      ELSE [ok |-> TRUE, value |-> PyStrip(PyLower(value))]

\* PersonName(value) accepts letters and spaces only; the names sent here
\* are "Ana" and "Ana 2" (two characters or more, so accepted by RegisterDTO)
PersonNames == {"Ana", "Ana 2"}

PersonNameOk(nome) == nome = "Ana"

\* the registrations the callers send, each one accepted by RegisterDTO:
\* u@x.io / u_c, the same in capitals, a third user, a username taken with
\* another email, a name with a digit, and the username "uc\n"
RegisterDTOs ==
    { [nome |-> "Ana", email |-> <<"u", AtXIo>>, nome_usuario |-> <<"u", "_", "c">>],
      [nome |-> "Ana", email |-> <<"U", AtXIo>>, nome_usuario |-> <<"U", "_", "C">>],
      [nome |-> "Ana", email |-> <<"c", AtXIo>>, nome_usuario |-> <<"p", "_", "c">>],
      [nome |-> "Ana", email |-> <<"p", AtXIo>>, nome_usuario |-> <<"U", "_", "c">>],
      [nome |-> "Ana 2", email |-> <<"u", AtXIo>>, nome_usuario |-> <<"u", "_", "c">>],
      [nome |-> "Ana", email |-> <<"d", AtXIo>>, nome_usuario |-> <<"u", "c", "NL">>] }

\* user_repository.exists_by_email / exists_by_username
exists_by_email(store, email) == \E u \in store : u.email = email

exists_by_username(store, username) == \E u \in store : u.nome_usuario = username

\* the storage-level unique constraints on email and on username
UserUniqueViolation(store, user) ==
    \/ exists_by_email(store, user.email)
    \/ exists_by_username(store, user.nome_usuario)

IdleRegister ==
    [pc |-> "idle", dto |-> <<>>, email |-> <<>>, username |-> <<>>,
     outcome |-> "none", clash |-> FALSE]

InitRegister ==
    /\ db = {}
    /\ sess = [c \in Callers |-> IdleRegister]
    /\ IdleName /\ IdleRbac /\ IdleHttp /\ IdleFn

\* the call of c ends with an outcome; clash records whether a stored user
\* had its email or its username at that moment
Ended(c, outcome, store) ==
    [sess EXCEPT ![c].pc = "done", ![c].outcome = outcome,
                 ![c].clash = /\ sess[c].email # <<>>
                              /\ UserUniqueViolation(store,
                                    [email |-> sess[c].email,
                                     nome_usuario |-> sess[c].username])]

\* execute, step 1: the value objects; a ValueError becomes a
\* DomainValidationException.  Password(dto.senha) repeats the checks of
\* RegisterDTO and cannot fail
BeginRegister(c, dto) ==
    /\ sess[c].pc = "idle"
    /\ LET e == Email(dto.email)
           u == Username(dto.nome_usuario) IN
       IF e.ok /\ u.ok /\ PersonNameOk(dto.nome)
         THEN sess' = [sess EXCEPT ![c] = [pc |-> "check_email", dto |-> dto,
                                           email |-> e.value,
                                           username |-> u.value,
                                           outcome |-> "none", clash |-> FALSE]]
         ELSE sess' = [sess EXCEPT ![c] = [pc |-> "done", dto |-> dto,
                                           email |-> <<>>, username |-> <<>>,
                                           outcome |-> "DomainValidationException",
                                           clash |-> FALSE]]
    /\ UNCHANGED <<db, nameVars, rbacVars, httpVars, fnVars>>

\* _check_user_uniqueness: await exists_by_email
CheckEmail(c) ==
    /\ sess[c].pc = "check_email"
    /\ IF exists_by_email(db, sess[c].email)
         THEN sess' = Ended(c, "UserAlreadyExistsException", db)
         ELSE sess' = [sess EXCEPT ![c].pc = "check_username"]
    /\ UNCHANGED <<db, nameVars, rbacVars, httpVars, fnVars>>

\* _check_user_uniqueness: await exists_by_username
CheckUsername(c) ==
    /\ sess[c].pc = "check_username"
    /\ IF exists_by_username(db, sess[c].username)
         THEN sess' = Ended(c, "UserAlreadyExistsException", db)
         ELSE sess' = [sess EXCEPT ![c].pc = "create"]
    /\ UNCHANGED <<db, nameVars, rbacVars, httpVars, fnVars>>

\* execute, steps 3 to 6: User.create builds the value objects again from the
\* normalized values, outside any try; user_repository.create is inside
\* `except Exception`, whose handler calls
\* RepositoryException(operation=..., details=...), a TypeError
CreateUser(c) ==
    /\ sess[c].pc = "create"
    /\ LET user == [email |-> sess[c].email, nome_usuario |-> sess[c].username] IN
       IF ~(Email(user.email).ok /\ Username(user.nome_usuario).ok)
         THEN /\ sess' = Ended(c, "ValueError", db)
              /\ db' = db
       ELSE IF UserUniqueViolation(db, user)
         THEN /\ sess' = Ended(c, RaiseRepositoryException, db)
              /\ db' = db
       ELSE /\ sess' = [sess EXCEPT ![c].pc = "done", ![c].outcome = "created"]
            /\ db' = db \cup {user}
    /\ UNCHANGED <<nameVars, rbacVars, httpVars, fnVars>>

\* the caller has its answer and may call again
RegisterReturn(c) ==
    /\ sess[c].pc = "done"
    /\ sess' = [sess EXCEPT ![c] = IdleRegister]
    /\ UNCHANGED <<db, nameVars, rbacVars, httpVars, fnVars>>

NextRegister ==
    \E c \in Callers :
       \/ \E dto \in RegisterDTOs : BeginRegister(c, dto)
       \/ CheckEmail(c)
       \/ CheckUsername(c)
       \/ CreateUser(c)
       \/ RegisterReturn(c)

SpecRegister == InitRegister /\ [][NextRegister]_vars

\* C19 (as claimed): no two stored users share an email or a username, and a
\* registration that ended while a stored user had its normalized email or
\* username ended with UserAlreadyExistsException.
C19_DuplicateRegistrationRejected ==
    /\ \A u1, u2 \in db :
          (u1.email = u2.email \/ u1.nome_usuario = u2.nome_usuario) => u1 = u2
    /\ \A c \in Callers :
          (sess[c].pc = "done" /\ sess[c].clash)
          => sess[c].outcome = "UserAlreadyExistsException"

\* the part of C19 that holds: the stored users stay unique
C19_StoredUsersUnique ==
    \A u1, u2 \in db :
       (u1.email = u2.email \/ u1.nome_usuario = u2.nome_usuario) => u1 = u2

\* a registration whose email, up to case, was stored by an overlapping call
\* ends with TypeError
C19_OverlappingDuplicateTypeError ==
    \E c \in Callers :
       /\ sess[c].pc = "done"
       /\ sess[c].dto.email = <<"U", AtXIo>>
       /\ sess[c].clash
       /\ sess[c].outcome = "TypeError"
       /\ [email |-> <<"u", AtXIo>>, nome_usuario |-> <<"u", "_", "c">>] \in db

(***************************************************************************)
(* Permission.update_description                                           *)
(*                                                                         *)
(* call is [self, before, new_description]: the instance the method is     *)
(* called on, a copy of its fields taken before the call, and the          *)
(* argument; ret is the instance returned.                                 *)
(***************************************************************************)
\* descricao is Optional[str]
Descriptions == {"None", "", "old", "new"}

CreationTimes == {"t1", "t2"}

\* the Permission instances the method is called on
PermissionInstances ==
    [id : {1, 2}, nome : {UsersCreate, PostsDelete},
     descricao : Descriptions, data_criacao : CreationTimes]

\* a method that writes the description into the instance it was called on
UpdateDescriptionInPlace(self, new_description) ==
    [self   |-> [self EXCEPT !.descricao = new_description],
     result |-> [self EXCEPT !.descricao = new_description]]

\* Permission.update_description: replace(self, descricao=new_description)
\* builds a new instance from the fields of self; self is frozen
UpdateDescription(self, new_description) ==
    [self   |-> self,
     result |-> [id |-> self.id, nome |-> self.nome,
                 descricao |-> new_description,
                 data_criacao |-> self.data_criacao]]

InitPermission ==
    /\ \E self \in PermissionInstances, d \in Descriptions :
          call = [self |-> self, before |-> self, new_description |-> d]
    /\ ret = NotCalled
    /\ IdleName /\ IdleRbac /\ IdleRepo /\ IdleHttp

\* permission.update_description(new_description)
update_description ==
    /\ ret = NotCalled
    /\ LET r == UpdateDescription(call.self, call.new_description) IN
       /\ ret' = r.result
       /\ call' = [call EXCEPT !.self = r.self]
    /\ UNCHANGED <<nameVars, rbacVars, repoVars, httpVars>>

NextPermission == update_description

SpecPermission == InitPermission /\ [][NextPermission]_vars

\* C21: the Permission returned by update_description(d) has descricao d and
\* the id, nome and data_criacao of the original, and the original instance
\* has the fields it had before the call.
C21_OnlyDescriptionReplaced ==
    ret # NotCalled =>
        /\ ret.descricao = call.new_description
        /\ ret.id = call.before.id
        /\ ret.nome = call.before.nome
        /\ ret.data_criacao = call.before.data_criacao
        /\ call.self = call.before

\* C21 witness: a permission described "old" was given "new"; the returned
\* instance differs from the original, which still says "old"
C21_DescriptionChanged ==
    /\ ret # NotCalled
    /\ call.before.descricao = "old"
    /\ call.new_description = "new"
    /\ ret.descricao = "new"
    /\ call.self.descricao = "old"

(***************************************************************************)
(* Role.has_permission and Role.get_permissions_by_resource, on the roles  *)
(* of specification Spec                                                   *)
(***************************************************************************)
\* strings with a wildcard: "u.*", "*.c", "*.*", "*", "U.*"
WildcardQueries == { <<"u", ".", "*">>, <<"*", ".", "c">>, <<"*", ".", "*">>,
                     <<"*">>, <<"U", ".", "*">> }

\* the normalized names a role owns
OwnedNames(o) ==
    {roleObjs[o].permissions[i].nome : i \in 1..Len(roleObjs[o].permissions)}

\* C22: for every role and every string, has_permission answers true exactly
\* when the lowercased string is the name of an owned permission, and it
\* answers false for every string holding a wildcard.
C22_HasPermissionIsExactName ==
    \A o \in RoleObjs :
       /\ \A q \in QueryNames \cup WildcardQueries :
             RoleHasPermission(roleObjs[o].permissions, q)
               <=> PyLower(q) \in OwnedNames(o)
       /\ \A w \in WildcardQueries :
             ~RoleHasPermission(roleObjs[o].permissions, w)

\* C22 witness: a role that owns users.create answers true to "U.C" and false
\* to "u.*", "*.c" and "*.*"
C22_WildcardNotAPattern ==
    /\ UsersCreate \in OwnedNames("editor")
    /\ RoleHasPermission(roleObjs["editor"].permissions, <<"U", ".", "C">>)
    /\ ~RoleHasPermission(roleObjs["editor"].permissions, <<"u", ".", "*">>)
    /\ ~RoleHasPermission(roleObjs["editor"].permissions, <<"*", ".", "c">>)
    /\ ~RoleHasPermission(roleObjs["editor"].permissions, <<"*", ".", "*">>)

\* the normalized names has_permission is asked about
NormalizedNames ==
    {q \in QueryNames : PermissionName(q).ok /\ PermissionName(q).value = q}
      \cup {p.nome : p \in PermUniverse}

\* C27: in every state reached by add_role / remove_role and add_permission /
\* remove_permission / clear_permissions, for every normalized name n,
\* has_permission(n) is true exactly when n is an element of
\* get_all_permissions().
C27_CheckAgreesWithList ==
    \A n \in NormalizedNames :
       UserHasPermission(userRoles, n)
         <=> \E i \in 1..Len(GetAllPermissions(userRoles)) :
                GetAllPermissions(userRoles)[i] = n

\* C27 witness: posts.delete comes from the second attached role only; the
\* check says true and the list holds it, users.delete is in neither
C27_GrantedBySecondRole ==
    /\ Len(userRoles) = 2
    /\ ~RoleHasPermission(roleObjs[userRoles[1]].permissions, PostsDelete)
    /\ RoleHasPermission(roleObjs[userRoles[2]].permissions, PostsDelete)
    /\ UserHasPermission(userRoles, PostsDelete)
    /\ \E i \in 1..Len(GetAllPermissions(userRoles)) :
          GetAllPermissions(userRoles)[i] = PostsDelete
    /\ ~UserHasPermission(userRoles, UsersDelete)

\* resource strings asked of get_permissions_by_resource: "u", "U", "p", "x"
ResourceQueries == { <<"u">>, <<"U">>, <<"p">>, <<"a">> }

RECURSIVE GetPermissionsByResource(_, _)
\* Role.get_permissions_by_resource: the comprehension calls p.get_resource()
\* on each owned permission in turn; the first call that raises ends it
GetPermissionsByResource(perms, resource) ==
    IF perms = <<>> THEN [ok |-> TRUE, value |-> <<>>]
    ELSE LET r == PermissionGetResource(Head(perms).nome) IN
         IF ~r.ok THEN [ok |-> FALSE, error |-> r.error]
         ELSE LET rest == GetPermissionsByResource(Tail(perms), resource) IN
              IF ~rest.ok THEN rest
              ELSE IF r.value = PyLower(resource)
                THEN [ok |-> TRUE, value |-> <<Head(perms)>> \o rest.value]
                ELSE rest

\* the owned permissions whose resource is the lowercased string, in order
OwnedForResource(perms, resource) ==
    SelectSeq(perms, LAMBDA p : GetBaseResource(p.nome) = PyLower(resource))

\* C23 (as claimed): for every role and every resource string,
\* get_permissions_by_resource returns, without raising, exactly the owned
\* permissions whose resource is the lowercased string.
C23_ByResourceReturnsOwned ==
    \A o \in RoleObjs, r \in ResourceQueries :
       LET got == GetPermissionsByResource(roleObjs[o].permissions, r) IN
       /\ got.ok
       /\ got.value = OwnedForResource(roleObjs[o].permissions, r)

\* the part of C23 that holds: a role without permissions gets the empty list
C23_EmptyRoleEmptyList ==
    \A o \in RoleObjs, r \in ResourceQueries :
       roleObjs[o].permissions = <<>>
       => GetPermissionsByResource(roleObjs[o].permissions, r)
            = [ok |-> TRUE, value |-> <<>>]

\* a role that owns users.create is asked for "u": AttributeError
C23_ByResourceRaises ==
    /\ lastOp.op = "add_permission"
    /\ UsersCreate \in OwnedNames("editor")
    /\ GetPermissionsByResource(roleObjs["editor"].permissions, <<"u">>)
         = [ok |-> FALSE, error |-> "AttributeError"]

(***************************************************************************)
(* UpdatePermissionUseCase                                                 *)
(*                                                                         *)
(* Here db is the set of committed permission rows [id, nome, descricao,   *)
(* data_criacao] and sess is the request being served: [pc, permission_id, *)
(* dto, entity, pending, outcome, before, wrote], pending being the row    *)
(* the session has flushed, before the committed rows when it began and    *)
(* wrote the row the request flushed, kept after the session is closed.    *)
(***************************************************************************)
OneDotC == <<"1", ".", "c">>

\* the rows stored before any update: users.create, 1.c (a name whose
\* resource "1" PermissionResource rejects) and posts.delete
StoredPermissions ==
    { [id |-> "p1", nome |-> UsersCreate, descricao |-> "old", data_criacao |-> "t1"],
      [id |-> "p2", nome |-> OneDotC,     descricao |-> "None", data_criacao |-> "t1"],
      [id |-> "p3", nome |-> PostsDelete, descricao |-> "old", data_criacao |-> "t2"] }

\* permission_id as it comes in the path: the ids of the stored rows, p1 in
\* capitals, a well-formed id of no row, and two strings that are no UUID
PermissionIdStrings == {"p1", "P1", "p2", "p3", "p9", "zz", ""}

\* EntityId.from_string: UUID(id_str) reads hexadecimal digits in either case
EntityIdFromString(id_str) ==
    CASE id_str \in {"p1", "P1"} -> [ok |-> TRUE, value |-> "p1"]
      [] id_str \in {"p2", "p3", "p9"} -> [ok |-> TRUE, value |-> id_str]
      [] OTHER -> [ok |-> FALSE, error |-> "ValueError"]

\* UpdatePermissionDTO.descricao after its validator: None or a stripped,
\* non-empty text
DtoDescriptions == {"None", "old", "new"}

NoRow == <<>>

\* the rows a SELECT of the session sees: its own flushed row over the
\* committed one
SessionRows == IF sess.pending = NoRow THEN db
               ELSE {r \in db : r.id # sess.pending.id} \cup {sess.pending}

\* select(PermissionModel).where(id == ...).scalar_one_or_none()
SelectById(id) ==
    IF \E r \in SessionRows : r.id = id
      THEN CHOOSE r \in SessionRows : r.id = id
      ELSE NoRow

\* a mapper that writes every column of the model, data_criacao from its
\* column default
UpdateModelAllColumns(model, entity) ==
    [model EXCEPT !.descricao = entity.descricao, !.data_criacao = "now"]

\* PermissionMapper.update_model_from_entity: model.descricao = entity.descricao
UpdateModelFromEntity(model, entity) ==
    [model EXCEPT !.descricao = entity.descricao]

\* validate_permission_name (before_update listener): the nome is lowercased
\* and stripped, then matched; an empty descricao becomes None
BeforeUpdateListener(model) ==
    IF ~ListenerAccepts(model.nome) THEN [ok |-> FALSE, error |-> "ValueError"]
    ELSE [ok |-> TRUE,
          model |-> [model EXCEPT !.nome = PyStrip(PyLower(model.nome)),
                                  !.descricao = IF @ = "" THEN "None" ELSE @]]

\* application PermissionMapper.to_response_dto: permission.nome.resource
\* builds a PermissionResource, which may raise ValueError
UpdateToResponseDto(entity) ==
    IF Resource(entity.nome).ok THEN [ok |-> TRUE]
    ELSE [ok |-> FALSE, error |-> Resource(entity.nome).error]

IdleUpdate ==
    [pc |-> "idle", permission_id |-> "", dto |-> "None", entity |-> NoRow,
     pending |-> NoRow, outcome |-> "none", before |-> {}, wrote |-> NoRow]

InitUpdate ==
    /\ db = StoredPermissions
    /\ sess = IdleUpdate
    /\ IdleName /\ IdleRbac /\ IdleHttp /\ IdleFn

\* execute raises or returns
UpdateDone(outcome) == [sess EXCEPT !.pc = "done", !.outcome = outcome]

\* a request arrives; execute parses the id: ValueError becomes
\* PermissionNotFoundException
BeginUpdate(permission_id, descricao) ==
    /\ sess.pc = "idle"
    /\ LET st == [IdleUpdate EXCEPT !.permission_id = permission_id,
                                    !.dto = descricao, !.before = db]
       IN  sess' = IF EntityIdFromString(permission_id).ok
                     THEN [st EXCEPT !.pc = "find"]
                     ELSE [st EXCEPT !.pc = "done",
                                     !.outcome = "PermissionNotFoundException"]
    /\ UNCHANGED <<db, nameVars, rbacVars, httpVars, fnVars>>

\* await find_by_id; not found raises; else update_description on the entity
UpdateFind ==
    /\ sess.pc = "find"
    /\ LET model == SelectById(EntityIdFromString(sess.permission_id).value) IN
       IF model = NoRow
         THEN sess' = UpdateDone("PermissionNotFoundException")
         ELSE sess' = [sess EXCEPT !.pc = "save",
                          !.entity = UpdateDescription(model, sess.dto).result]
    /\ UNCHANGED <<db, nameVars, rbacVars, httpVars, fnVars>>

\* await permission_repository.update(updated_permission), then
\* to_response_dto.  refused: the database fails the flush.  Every exception
\* but PermissionNotFoundException is caught twice with
\* RepositoryException(operation=..., details=...), a TypeError
UpdateSave(refused) ==
    /\ sess.pc = "save"
    /\ LET model  == SelectById(sess.entity.id)
           listen == BeforeUpdateListener(UpdateModelFromEntity(model, sess.entity))
       IN  IF model = NoRow
             THEN sess' = UpdateDone("PermissionNotFoundException")
           ELSE IF refused \/ ~listen.ok
             THEN sess' = UpdateDone(RaiseRepositoryException)
           ELSE IF ~UpdateToResponseDto(listen.model).ok
             THEN sess' = [UpdateDone(RaiseRepositoryException)
                             EXCEPT !.pending = listen.model,
                                    !.wrote = listen.model]
           ELSE sess' = [UpdateDone("returned") EXCEPT !.pending = listen.model,
                                                       !.wrote = listen.model]
    /\ UNCHANGED <<db, nameVars, rbacVars, httpVars, fnVars>>

\* a dependency that commits whatever the handler did
GetDbCommitAlways(outcome, flushed, committed) == flushed

\* get_db around the handler: the rows stored once the session is closed.
\* The route turns every exception of the use case into an HTTPException,
\* which reaches the except clause: rollback; else commit
GetDbExit(outcome, flushed, committed) ==
    IF outcome = "returned" THEN flushed ELSE committed

\* get_db after the handler: commit when nothing was raised, else rollback
UpdateEndRequest ==
    /\ sess.pc = "done"
    /\ db' = GetDbExit(sess.outcome, SessionRows, db)
    /\ sess' = [sess EXCEPT !.pc = "ended", !.pending = NoRow]
    /\ UNCHANGED <<nameVars, rbacVars, httpVars, fnVars>>

\* the next request
UpdateNextRequest ==
    /\ sess.pc = "ended"
    /\ sess' = IdleUpdate
    /\ UNCHANGED <<db, nameVars, rbacVars, httpVars, fnVars>>

NextUpdate ==
    \/ \E id \in PermissionIdStrings, d \in DtoDescriptions : BeginUpdate(id, d)
    \/ UpdateFind
    \/ \E refused \in BOOLEAN : UpdateSave(refused)
    \/ UpdateEndRequest
    \/ UpdateNextRequest

SpecUpdate == InitUpdate /\ [][NextUpdate]_vars

\* the columns of a row that an update must keep
KeptColumns(r) == [id |-> r.id, nome |-> r.nome, data_criacao |-> r.data_criacao]

\* C24: after a request served by UpdatePermissionUseCase.execute, the stored
\* rows have the id, nome and data_criacao they had before, and the only
\* description that may differ is that of the row whose id was given, which
\* then is the dto's; for a malformed or unknown id the outcome is
\* PermissionNotFoundException and the stored rows are the same as before.
C24_UpdateChangesOnlyDescription ==
    sess.pc = "ended" =>
        /\ {KeptColumns(r) : r \in db} = {KeptColumns(r) : r \in sess.before}
        /\ \A r \in db :
              r \notin sess.before
              => /\ EntityIdFromString(sess.permission_id).ok
                 /\ r.id = EntityIdFromString(sess.permission_id).value
                 /\ r.descricao = sess.dto
        /\ (\/ ~EntityIdFromString(sess.permission_id).ok
            \/ \A r \in sess.before :
                  r.id # EntityIdFromString(sess.permission_id).value)
           => /\ sess.outcome = "PermissionNotFoundException"
              /\ db = sess.before

\* C24 witness: a request for "P1" with description "new" ended, and the row
\* p1 now says "new"
C24_DescriptionStored ==
    /\ sess.pc = "ended"
    /\ sess.permission_id = "P1"
    /\ sess.dto = "new"
    /\ sess.outcome = "returned"
    /\ [id |-> "p1", nome |-> UsersCreate, descricao |-> "new",
        data_criacao |-> "t1"] \in db
    /\ db # sess.before

\* C30: a request served with the get_db session is atomic.  Once it has
\* ended: if the handler returned, the row it flushed is stored and every
\* other row is as before; if the handler raised (also after the use case
\* had flushed a row), the stored rows are those the request found, so a
\* later request reads nothing of it.
C30_RequestIsAtomic ==
    sess.pc = "ended" =>
        IF sess.outcome = "returned"
          THEN /\ sess.wrote # NoRow => sess.wrote \in db
               /\ {r \in db : sess.wrote = NoRow \/ r.id # sess.wrote.id}
                    = {r \in sess.before :
                         sess.wrote = NoRow \/ r.id # sess.wrote.id}
          ELSE db = sess.before

\* C30 witness: the request for p2 (1.c) flushed the description "new", the
\* response could not be built, the handler raised, and the stored rows are
\* those of before
C30_RaisedAfterWriteRolledBack ==
    /\ sess.pc = "ended"
    /\ sess.permission_id = "p2"
    /\ sess.outcome # "returned"
    /\ sess.wrote # NoRow
    /\ sess.wrote.descricao = "new"
    /\ sess.wrote \notin db
    /\ db = sess.before

(***************************************************************************)
(* RateLimitMiddleware                                                     *)
(*                                                                         *)
(* Here db is self.requests, the dict {ip: [(timestamp, endpoint), ...]},  *)
(* and sess is [now, status, passed]: the clock, the status of the last    *)
(* answer of the middleware itself (0 when it called the handler) and, for *)
(* each ip and endpoint, the times inside the current window at which a    *)
(* request was passed on.                                                  *)
(***************************************************************************)
MaxRequests   == 2
WindowSeconds == 2
MaxTime       == 3

ClientIps == {"ip1", "unknown"}

LimitedPaths == {"/auth/login", "/auth/register"}

Paths == LimitedPaths \cup {"/auth/me"}

\* the entries of a list that are inside the window and of the endpoint
RecentRequests(entries, endpoint, current_time) ==
    SelectSeq(entries, LAMBDA e : /\ current_time - e.ts < WindowSeconds
                                  /\ e.ep = endpoint)

\* the list _is_rate_limited stores back into self.requests[ip]
KeptRequests(entries, endpoint, current_time) ==
    RecentRequests(entries, endpoint, current_time)

\* RateLimitMiddleware._is_rate_limited: [limited, requests], requests being
\* self.requests after the call
IsRateLimited(requests, ip, endpoint, current_time) ==
    IF ip \notin DOMAIN requests
      THEN [limited |-> FALSE, requests |-> requests]
      ELSE [limited  |-> Len(RecentRequests(requests[ip], endpoint, current_time))
                           >= MaxRequests,
            requests |-> [requests EXCEPT
                            ![ip] = KeptRequests(@, endpoint, current_time)]]

\* RateLimitMiddleware._record_request
RecordRequest(requests, ip, endpoint, current_time) ==
    LET known == IF ip \in DOMAIN requests THEN requests
                 ELSE [i \in DOMAIN requests \cup {ip} |->
                          IF i = ip THEN <<>> ELSE requests[i]]
    IN  [known EXCEPT ![ip] = Append(@, [ts |-> current_time, ep |-> endpoint])]

InitLimit ==
    /\ db = <<>>
    /\ sess = [now |-> 0, status |-> 0,
               passed |-> [k \in ClientIps \X LimitedPaths |-> <<>>]]
    /\ IdleName /\ IdleRbac /\ IdleHttp /\ IdleFn

\* RateLimitMiddleware.dispatch for one request
dispatch(ip, path) ==
    /\ IF path \in LimitedPaths
         THEN LET checked == IsRateLimited(db, ip, path, sess.now) IN
              IF checked.limited
                THEN /\ db' = checked.requests
                     /\ sess' = [sess EXCEPT !.status = 429]
                ELSE /\ Len(sess.passed[<<ip, path>>]) <= MaxRequests
                     /\ db' = RecordRequest(checked.requests, ip, path, sess.now)
                     /\ sess' = [sess EXCEPT !.status = 0,
                                   !.passed[<<ip, path>>] = Append(@, sess.now)]
         ELSE /\ db' = db
              /\ sess' = [sess EXCEPT !.status = 0]
    /\ UNCHANGED <<nameVars, rbacVars, httpVars, fnVars>>

\* time.time() advances by a second; the passes that left the window of
\* window_seconds ending now are forgotten
Tick ==
    /\ sess.now < MaxTime
    /\ sess' = [sess EXCEPT !.now = @ + 1,
                  !.passed = [k \in DOMAIN @ |->
                     SelectSeq(@[k], LAMBDA ts : sess.now + 1 - ts < WindowSeconds)]]
    /\ UNCHANGED <<db, nameVars, rbacVars, httpVars, fnVars>>

NextLimit ==
    \/ \E ip \in ClientIps, path \in Paths : dispatch(ip, path)
    \/ Tick

SpecLimit == InitLimit /\ [][NextLimit]_vars

\* C25 (as claimed): for every ip and each limited endpoint, at most
\* max_requests requests to that endpoint were passed to the handler within
\* the window of window_seconds that ends now, whenever now is.
C25_AtMostMaxRequestsPerWindow ==
    \A ip \in ClientIps, path \in LimitedPaths :
       Len(sess.passed[<<ip, path>>]) <= MaxRequests

\* more than max_requests logins of one ip were passed on in the same second,
\* with a register request of that ip in between
C25_LoginsAfterRegisterPassed ==
    /\ Len(sess.passed[<<"ip1", "/auth/login">>]) > MaxRequests
    /\ Len(sess.passed[<<"ip1", "/auth/register">>]) >= 1
    /\ \A i \in 1..Len(sess.passed[<<"ip1", "/auth/login">>]) :
          sess.passed[<<"ip1", "/auth/login">>][i] = sess.now
    /\ sess.status = 0

(***************************************************************************)
(* LoginUseCase                                                            *)
(*                                                                         *)
(* Here db is the set of stored users [id, email, senha] and call / ret    *)
(* are the LoginDTO given to execute and how execute ended: [outcome,      *)
(* message, token, found, verified].  execute awaits once (find_by_email)  *)
(* and writes nothing, so one action covers it.  The user repository is    *)
(* not part of these sources: find_by_email is an exact lookup of the      *)
(* normalized email.                                                       *)
(***************************************************************************)
\* pwd_context.hash(password): a bcrypt hash of the password
BcryptHash(password) == <<"$2b$", password>>

\* the users that may be stored; the hash of the third is cut short
LoginUsers ==
    { [id |-> "u1", email |-> <<"u", AtXIo>>, senha |-> BcryptHash("Pw1")],
      [id |-> "u2", email |-> <<"c", AtXIo>>, senha |-> BcryptHash("Pw2")],
      [id |-> "u3", email |-> <<"p", AtXIo>>, senha |-> <<"$2b$">>] }

\* the LoginDTO: emails accepted by EmailStr (the last one is not accepted by
\* Email, its local part holds a letter outside a-z) and passwords
LoginDTOs ==
    [email : { <<"u", AtXIo>>, <<"U", AtXIo>>, <<"c", AtXIo>>, <<"p", AtXIo>>,
               <<"d", AtXIo>>, <<"é", AtXIo>> },
     senha : {"Pw1", "Pw2", "x"}]

\* PasswordHasher.verify: pwd_context.verify, and False for every exception
\* it raises (a hash it cannot read)
PasswordVerify(plain_password, hashed_password) ==
    IF Len(hashed_password) = 2
      THEN hashed_password = BcryptHash(plain_password)
      ELSE FALSE

\* user_repository.find_by_email
find_by_email(store, email) ==
    IF \E u \in store : u.email = email
      THEN CHOOSE u \in store : u.email = email
      ELSE NoRow

\* no token was issued
NoToken == [sub |-> "none", email |-> <<>>]

\* InvalidCredentialsException(): the message is fixed
InvalidCredentials ==
    [outcome |-> "InvalidCredentialsException",
     message |-> "Email ou senha incorretos", token |-> NoToken]

\* a lookup that tells the caller the email is unknown
FindUserRevealing(store, email) ==
    IF find_by_email(store, email) = NoRow
      THEN [ok |-> FALSE,
            raised |-> [outcome |-> "UserNotFoundException",
                        message |-> "email", token |-> NoToken]]
      ELSE [ok |-> TRUE, user |-> find_by_email(store, email)]

\* LoginUseCase._find_user_by_email
FindUserByEmail(store, email) ==
    IF find_by_email(store, email) = NoRow
      THEN [ok |-> FALSE, raised |-> InvalidCredentials]
      ELSE [ok |-> TRUE, user |-> find_by_email(store, email)]

\* LoginUseCase._generate_access_token: the payload that is signed
GenerateAccessToken(user) == [sub |-> user.id, email |-> user.email]

\* LoginUseCase.execute: [outcome, message, token]
LoginExecute(store, dto) ==
    LET email == Email(dto.email) IN
    IF ~email.ok
      THEN [outcome |-> "DomainValidationException",
            message |-> "Email inválido", token |-> NoToken]
    ELSE LET found == FindUserByEmail(store, email.value) IN
         IF ~found.ok THEN found.raised
         ELSE IF ~PasswordVerify(dto.senha, found.user.senha)
           THEN InvalidCredentials
         ELSE [outcome |-> "returned", message |-> "",
               token |-> GenerateAccessToken(found.user)]

InitLogin ==
    /\ db \in SUBSET LoginUsers
    /\ call \in LoginDTOs
    /\ ret = NotCalled
    /\ sess = <<>>
    /\ IdleName /\ IdleRbac /\ IdleHttp

\* await login_usecase.execute(dto)
Login ==
    /\ ret = NotCalled
    /\ ret' = LoginExecute(db, call)
    /\ UNCHANGED <<call, nameVars, rbacVars, repoVars, httpVars>>

NextLogin == Login

SpecLogin == InitLogin /\ [][NextLogin]_vars

\* the stored user with the email of the dto, up to case
UserOfDto == {u \in db : u.email = PyLower(call.email)}

=============================================================================
